---- MODULE Spec2Model ----
(***************************************************************************)
(* The spatial navigation engine of Norigin-Spatial-Navigation:            *)
(* SpatialNavigationServiceClass (src/src/SpatialNavigation.ts, lines      *)
(* 35-939) and the directional algorithm smartNavigate (src/src/helpers.ts).*)
(*                                                                         *)
(* The engine is single threaded: every public operation runs to           *)
(* completion, so each operation is one action.  Callbacks handed to the   *)
(* engine are external code; the callbacks an operation invokes are        *)
(* recorded, in order, in `fired`.                                         *)
(***************************************************************************)
EXTENDS Integers, Sequences, FiniteSets, TLC

VARIABLES
    focusableComponents,        \* this.focusableComponents: focusKey -> component
    keyOrder,                   \* property order of this.focusableComponents
    focusKey,                   \* this.focusKey
    parentsHavingFocusedChild,  \* this.parentsHavingFocusedChild (an array)
    enabled,                    \* this.enabled
    paused,                     \* this.paused
    dom,                        \* what measureLayout(node) returns for each node
    universe,                   \* the payloads and boxes the application draws from
    pressedKeys,                \* this.pressedKeys: event type -> key-downs counted
    dispatched,                 \* event type -> key-downs dispatched since its last key-up
    focused,                    \* the keys whose component was last told onUpdateFocus(true)
    hasFocusedChild,            \* those last told onUpdateHasFocusedChild(true)
    throttle,                   \* this.throttle
    throttleKeypresses,         \* this.throttleKeypresses
    throttleTimer,              \* the throttled key-down listener has a timer pending
    staleListeners,             \* key-down listeners destroy left on window: timer pending
    inFlight,                   \* the key-down event window is handing to its listeners
    keyMap,                     \* this.keyMap
    fired,                      \* callbacks invoked by the last operation, in order
    call                        \* the last operation and what it computed

vars == <<focusableComponents, keyOrder, focusKey, parentsHavingFocusedChild,
          enabled, paused, dom, universe, pressedKeys, dispatched, focused,
          hasFocusedChild, throttle, throttleKeypresses, throttleTimer,
          staleListeners, inFlight, keyMap, fired, call>>

----------------------------------------------------------------------------
(* Values *)

\* JavaScript null / undefined (the code only tests them for truthiness).
NULL == "null"

ROOT_FOCUS_KEY == "SN:ROOT"

\* The focus keys the application uses.
Ids == {"a", "b", "c"}

DIRECTION_LEFT == "left"
DIRECTION_RIGHT == "right"
DIRECTION_UP == "up"
DIRECTION_DOWN == "down"
KEY_ENTER == "enter"

Directions == {DIRECTION_LEFT, DIRECTION_RIGHT, DIRECTION_UP, DIRECTION_DOWN}

Box(l, t, w, h) == [left |-> l, top |-> t, width |-> w, height |-> h]

Abs(x) == IF x < 0 THEN -x ELSE x

Min2(x, y) == IF x <= y THEN x ELSE y

Max2(x, y) == IF x >= y THEN x ELSE y

\* The elements of a sequence.
Range(s) == {s[i] : i \in DOMAIN s}

\* lodash difference(xs, ys): the elements of xs not in ys, in the order of xs.
difference(xs, ys) == SelectSeq(xs, LAMBDA x : x \notin Range(ys))

\* One recorded callback invocation.
Cb(name, key, val) == [cb |-> name, key |-> key, val |-> val]

----------------------------------------------------------------------------
(* Layout *)

\* measureLayout(node): the box the layout provider reports for the node of focusKey.
measureLayout(key) == dom[key]

\* updateLayout(focusKey): layoutUpdated is never set, so every call measures again.
updateLayout(fc, key) ==
    IF key \notin DOMAIN fc
    THEN fc
    ELSE [fc EXCEPT ![key].layout = measureLayout(key)]

\* updateLayout applied to each key of a sequence, in turn.
RECURSIVE updateLayouts(_, _)
updateLayouts(fc, keys) ==
    IF keys = <<>>
    THEN fc
    ELSE updateLayouts(updateLayout(fc, Head(keys)), Tail(keys))

----------------------------------------------------------------------------
(* lodash helpers *)

\* Insert x into the sorted sequence xs before the first element whose score is
\* not smaller: an element stays ahead of the later elements it ties with.
RECURSIVE insertSorted(_, _, _)
insertSorted(x, xs, score) ==
    IF xs = <<>>
    THEN <<x>>
    ELSE IF score[x] <= score[Head(xs)]
         THEN <<x>> \o xs
         ELSE <<Head(xs)>> \o insertSorted(x, Tail(xs), score)

\* lodash sortBy(xs, iteratee): stable, ascending by score.
RECURSIVE sortBy(_, _)
sortBy(xs, score) ==
    IF xs = <<>>
    THEN <<>>
    ELSE insertSorted(Head(xs), sortBy(Tail(xs), score), score)

\* lodash first(xs): undefined for an empty array.
first(xs) == IF xs = <<>> THEN NULL ELSE Head(xs)

----------------------------------------------------------------------------
(* Leaf resolution *)

isParticipatingFocusableComponent(fc, key) ==
    key \in DOMAIN fc /\ fc[key].focusable

\* The child with the least |left|.
getChildLeftmost(fc, children) ==
    first(sortBy(children, [k \in Range(children) |-> Abs(fc[k].layout.left)]))

\* getChildClosestToOrigin(children): the child with the least |left| + |top|.
getChildClosestToOrigin(fc, children) ==
    first(sortBy(children,
                 [k \in Range(children) |->
                     Abs(fc[k].layout.left) + Abs(fc[k].layout.top)]))

\* filter(this.focusableComponents, parentFocusKey === target && focusable)
participatingChildren(s, target) ==
    SelectSeq(s.order,
              LAMBDA k : s.fc[k].parentFocusKey = target /\ s.fc[k].focusable)

\* One level of getValidLeafFocusKey for a live target: the key the code recurses
\* into (NULL when it returns the target itself) and the components afterwards.
leafStep(s, target) ==
    LET c == s.fc[target]
        children == participatingChildren(s, target)
        measured == updateLayouts(s.fc, children)
    IN  IF /\ c.lastFocusedChildKey # NULL
           /\ c.saveLastFocusedChild
           /\ isParticipatingFocusableComponent(s.fc, c.lastFocusedChildKey)
        THEN [next |-> c.lastFocusedChildKey, fc |-> s.fc]
        ELSE IF /\ c.preferredChildFocusKey # NULL
                /\ isParticipatingFocusableComponent(s.fc, c.preferredChildFocusKey)
        THEN [next |-> c.preferredChildFocusKey, fc |-> s.fc]
        ELSE IF Len(children) > 0
        THEN [next |-> getChildClosestToOrigin(measured, children), fc |-> measured]
        ELSE [next |-> NULL, fc |-> s.fc]

\* getValidLeafFocusKey(targetFocusKey).  `path` lists the live targets of the
\* recursion.  A target met again on the same descent makes the same decision
\* again (nothing the decision reads has changed), so the recursion never ends
\* and the call stack overflows: `overflow`.
RECURSIVE getValidLeafFocusKey(_, _, _)
\* What getValidLeafFocusKey does with the decision `step` of one level.
descend(s, target, path, step) ==
    IF step.next = NULL
    THEN [key |-> target, fc |-> step.fc,
          path |-> Append(path, target), overflow |-> FALSE]
    ELSE getValidLeafFocusKey([s EXCEPT !.fc = step.fc], step.next,
                              Append(path, target))

getValidLeafFocusKey(s, target, path) ==
    IF target \notin DOMAIN s.fc
    THEN [key |-> s.focusKey, fc |-> s.fc, path |-> path, overflow |-> FALSE]
    ELSE IF target \in Range(path)
    THEN [key |-> NULL, fc |-> s.fc, path |-> path, overflow |-> TRUE]
    ELSE descend(s, target, path, leafStep(s, target))

----------------------------------------------------------------------------
(* Ancestor bookkeeping *)

\* The `parents` array the while loops of updateParentsHasFocusedChild and
\* updateParentsLastFocusedChild walk: the live parent of key, its live parent,
\* and so on, at most `fuel` of them.
RECURSIVE parentChain(_, _, _)
parentChain(fc, key, fuel) ==
    IF key \notin DOMAIN fc \/ fuel = 0
    THEN <<>>
    ELSE LET p == fc[key].parentFocusKey
         IN  IF p \in DOMAIN fc
             THEN <<p>> \o parentChain(fc, p, fuel - 1)
             ELSE <<>>

\* The walk up from key never ends: an acyclic chain has fewer parents than
\* there are components.
walkLoops(fc, key) ==
    Len(parentChain(fc, key, Cardinality(DOMAIN fc) + 1)) > Cardinality(DOMAIN fc)

\* Only the nearest live parent.
parentsOfNearest(fc, key) == parentChain(fc, key, 1)

parentsOf(fc, key) == parentChain(fc, key, Cardinality(DOMAIN fc))

\* The forEach bodies of updateParentsHasFocusedChild: for each key, in order,
\* onUpdateHasFocusedChild(flag) when the component tracks its children, then
\* onIntermediateNodeBecameBlurred / Focused, which calls onBlur / onFocus on a
\* participating component.
RECURSIVE intermediateCallbacks(_, _, _)
intermediateCallbacks(fc, keys, flag) ==
    IF keys = <<>>
    THEN <<>>
    ELSE LET k == Head(keys)
         IN  (IF k \in DOMAIN fc /\ fc[k].trackChildren
              THEN <<Cb("onUpdateHasFocusedChild", k, flag)>>
              ELSE <<>>)
             \o (IF isParticipatingFocusableComponent(fc, k)
                 THEN <<Cb(IF flag THEN "onFocus" ELSE "onBlur", k, flag)>>
                 ELSE <<>>)
             \o intermediateCallbacks(fc, Tail(keys), flag)

\* updateParentsHasFocusedChild(focusKey, focusDetails), for a walk that ends.
flagParents(s, parents, parentsToRemoveFlag, parentsToAddFlag) ==
    [fc |-> updateLayouts(s.fc,
                SelectSeq(parentsToRemoveFlag \o parentsToAddFlag,
                          LAMBDA k : isParticipatingFocusableComponent(s.fc, k))),
     parents |-> parents,
     fired |-> intermediateCallbacks(s.fc, parentsToRemoveFlag, FALSE)
               \o intermediateCallbacks(s.fc, parentsToAddFlag, TRUE)]

diffParents(s, parents) ==
    flagParents(s, parents, difference(s.parents, parents),
                difference(parents, s.parents))

updateParentsHasFocusedChild(s, key) == diffParents(s, parentsOf(s.fc, key))

\* setParentLastFocusedChildKey along the chain: parents[i] records the link
\* below it (key itself for the first parent).
RECURSIVE setLastFocusedChain(_, _, _)
setLastFocusedChain(fc, key, parents) ==
    IF parents = <<>>
    THEN fc
    ELSE setLastFocusedChain(
             [fc EXCEPT ![Head(parents)].lastFocusedChildKey = key],
             Head(parents), Tail(parents))

\* updateParentsLastFocusedChild recording from the parent upward only: the
\* parent itself does not record key.
updateParentsLastFocusedChildAbove(fc, key) ==
    IF parentsOf(fc, key) = <<>>
    THEN fc
    ELSE setLastFocusedChain(fc, Head(parentsOf(fc, key)), Tail(parentsOf(fc, key)))

\* updateParentsLastFocusedChild(focusKey), for a walk that ends.
updateParentsLastFocusedChild(fc, key) ==
    setLastFocusedChain(fc, key, parentsOf(fc, key))

----------------------------------------------------------------------------
(* focus *)

\* What an operation leaves behind: the store, the callbacks it invoked, and of
\* the focus() call it made (if any) the target and the path of the leaf
\* resolution; of a directional move the origins of the climb and the sibling
\* taken; and how it ended: "ok", or the error it threw, or "hang".
Result(s) ==
    [store |-> s, fired |-> <<>>, target |-> NULL, path |-> <<>>,
     levels |-> <<>>, taken |-> NULL, outcome |-> "ok"]

\* The end of focus(): updateParentsHasFocusedChild has returned `up`;
\* updateParentsLastFocusedChild(oldFocusKey) follows.
focusBookkeeping(res, s1, fired1, oldFocusKey, up) ==
    IF walkLoops(up.fc, oldFocusKey)
    THEN [res EXCEPT
             !.store = [s1 EXCEPT
                          !.fc = setLastFocusedChain(up.fc, oldFocusKey,
                                     parentChain(up.fc, oldFocusKey,
                                                 2 * Cardinality(DOMAIN up.fc) + 1)),
                          !.parents = up.parents],
             !.fired = fired1 \o up.fired, !.outcome = "hang"]
    ELSE [res EXCEPT
             !.store = [s1 EXCEPT
                          !.fc = updateParentsLastFocusedChild(up.fc, oldFocusKey),
                          !.parents = up.parents],
             !.fired = fired1 \o up.fired]

\* focus() once the old component is blurred and the new one focused: s1 is the
\* store with this.focusKey assigned, fired1 the callbacks so far.
focusAssigned(res, s1, fired1, oldFocusKey) ==
    IF walkLoops(s1.fc, s1.focusKey)
    THEN [res EXCEPT !.store = s1, !.fired = fired1, !.outcome = "hang"]
    ELSE focusBookkeeping(res, s1, fired1, oldFocusKey,
                          updateParentsHasFocusedChild(s1, s1.focusKey))

\* The focus of the new component, the old one not being told.
focusMoveUntold(s, res, r, blurOld, focusNew) ==
    focusAssigned(
        res,
        [s EXCEPT !.fc = updateLayouts(r.fc,
                             (IF blurOld THEN <<s.focusKey>> ELSE <<>>)
                             \o (IF focusNew THEN <<r.key>> ELSE <<>>)),
                  !.focusKey = r.key],
        (IF blurOld THEN <<Cb("onBlur", s.focusKey, FALSE)>> ELSE <<>>)
        \o (IF focusNew
            THEN <<Cb("onUpdateFocus", r.key, TRUE), Cb("onFocus", r.key, TRUE)>>
            ELSE <<>>),
        s.focusKey)

\* The focus of the new component before the blur of the old one.
focusMoveNewFirst(s, res, r, blurOld, focusNew) ==
    focusAssigned(
        res,
        [s EXCEPT !.fc = updateLayouts(r.fc,
                             (IF blurOld THEN <<s.focusKey>> ELSE <<>>)
                             \o (IF focusNew THEN <<r.key>> ELSE <<>>)),
                  !.focusKey = r.key],
        (IF focusNew
         THEN <<Cb("onUpdateFocus", r.key, TRUE), Cb("onFocus", r.key, TRUE)>>
         ELSE <<>>)
        \o (IF blurOld
            THEN <<Cb("onUpdateFocus", s.focusKey, FALSE), Cb("onBlur", s.focusKey, FALSE)>>
            ELSE <<>>),
        s.focusKey)

\* The blur of the old component and the focus of the new one.
focusMove(s, res, r, blurOld, focusNew) ==
    focusAssigned(
        res,
        [s EXCEPT !.fc = updateLayouts(r.fc,
                             (IF blurOld THEN <<s.focusKey>> ELSE <<>>)
                             \o (IF focusNew THEN <<r.key>> ELSE <<>>)),
                  !.focusKey = r.key],
        (IF blurOld
         THEN <<Cb("onUpdateFocus", s.focusKey, FALSE), Cb("onBlur", s.focusKey, FALSE)>>
         ELSE <<>>)
        \o (IF focusNew
            THEN <<Cb("onUpdateFocus", r.key, TRUE), Cb("onFocus", r.key, TRUE)>>
            ELSE <<>>),
        s.focusKey)

\* focus() after getValidLeafFocusKey has ended with r.
focusResolved(s, targetFocusKey, r) ==
    IF r.overflow
    THEN [Result([s EXCEPT !.fc = r.fc]) EXCEPT
             !.target = targetFocusKey, !.path = r.path, !.outcome = "RangeError"]
    ELSE focusMove(s,
                   [Result(s) EXCEPT !.target = targetFocusKey, !.path = r.path],
                   r,
                   s.focusKey \in DOMAIN r.fc /\ s.focusKey # r.key,
                   r.key \in DOMAIN r.fc /\ s.focusKey # r.key)

\* focus(targetFocusKey) with the engine enabled, on the store
\* s = [fc, order, focusKey, parents].  The result adds the callbacks fired, the
\* resolution path and the outcome: "ok", "RangeError" (the resolution overflowed
\* the stack: nothing after it ran) or "hang" (an ancestor walk that never ends).
focusEnabled(s, targetFocusKey) ==
    focusResolved(s, targetFocusKey, getValidLeafFocusKey(s, targetFocusKey, <<>>))

\* focus(targetFocusKey) whether the engine is enabled or not.
focusAlways(s, en, targetFocusKey) == focusEnabled(s, targetFocusKey)

\* focus(targetFocusKey): nothing happens while the engine is disabled.
focus(s, en, targetFocusKey) ==
    IF ~en
    THEN [Result(s) EXCEPT !.target = targetFocusKey]
    ELSE focusEnabled(s, targetFocusKey)

\* focus() blurs the old component: it is registered and not the resolved one.
blursOld(s, r) == ~r.overflow /\ s.focusKey \in DOMAIN r.fc /\ s.focusKey # r.key

\* focus() focuses the new component: it is registered and not the old one.
focusesNew(s, r) == ~r.overflow /\ r.key \in DOMAIN r.fc /\ s.focusKey # r.key

\* A focus() call made by a callback has ended with n, not "ok": the error
\* passes through the outer call, which does nothing more.
thrownThrough(res, firedBefore, n) ==
    [res EXCEPT !.store = n.store, !.fired = firedBefore \o n.fired,
                !.outcome = n.outcome]

\* focus() from the return of the old component's onBlur, which has called
\* focus() with the result n: this.focusKey = newFocusKey and what follows.
afterOnBlur(s, res, r, n) ==
    IF n.outcome # "ok"
    THEN thrownThrough(res, <<Cb("onUpdateFocus", s.focusKey, FALSE),
                              Cb("onBlur", s.focusKey, FALSE)>>, n)
    ELSE focusAssigned(
             res,
             [n.store EXCEPT !.fc = updateLayouts(n.store.fc,
                                        IF focusesNew(s, r) THEN <<r.key>> ELSE <<>>),
                             !.focusKey = r.key],
             <<Cb("onUpdateFocus", s.focusKey, FALSE), Cb("onBlur", s.focusKey, FALSE)>>
             \o n.fired
             \o (IF focusesNew(s, r)
                 THEN <<Cb("onUpdateFocus", r.key, TRUE), Cb("onFocus", r.key, TRUE)>>
                 ELSE <<>>),
             s.focusKey)

\* focus(targetFocusKey) where the onBlur of the old component calls
\* focus(nested); r is what getValidLeafFocusKey(targetFocusKey) returned.
focusOnBlurCalling(s, targetFocusKey, nested, r) ==
    IF ~blursOld(s, r)
    THEN focusResolved(s, targetFocusKey, r)
    ELSE afterOnBlur(s,
                     [Result(s) EXCEPT !.target = targetFocusKey, !.path = r.path],
                     r,
                     focusEnabled([s EXCEPT !.fc = updateLayouts(r.fc, <<s.focusKey>>)],
                                  nested))

\* focus() from the return of the new component's onFocus, which has called
\* focus() with the result n: updateParentsHasFocusedChild(newFocusKey) and
\* updateParentsLastFocusedChild(oldFocusKey).
afterOnFocus(res, firedBefore, oldFocusKey, newFocusKey, n) ==
    IF n.outcome # "ok"
    THEN thrownThrough(res, firedBefore, n)
    ELSE IF walkLoops(n.store.fc, newFocusKey)
    THEN [res EXCEPT !.store = n.store, !.fired = firedBefore \o n.fired,
                     !.outcome = "hang"]
    ELSE focusBookkeeping(res, n.store, firedBefore \o n.fired, oldFocusKey,
                          updateParentsHasFocusedChild(n.store, newFocusKey))

\* focus(targetFocusKey) where the onFocus of the new component calls
\* focus(nested); r is what getValidLeafFocusKey(targetFocusKey) returned.
focusOnFocusCalling(s, targetFocusKey, nested, r) ==
    IF ~focusesNew(s, r)
    THEN focusResolved(s, targetFocusKey, r)
    ELSE afterOnFocus(
             [Result(s) EXCEPT !.target = targetFocusKey, !.path = r.path],
             (IF blursOld(s, r)
              THEN <<Cb("onUpdateFocus", s.focusKey, FALSE),
                     Cb("onBlur", s.focusKey, FALSE)>>
              ELSE <<>>)
             \o <<Cb("onUpdateFocus", r.key, TRUE), Cb("onFocus", r.key, TRUE)>>,
             s.focusKey, r.key,
             focusEnabled([s EXCEPT !.fc = updateLayouts(r.fc,
                                      (IF blursOld(s, r) THEN <<s.focusKey>> ELSE <<>>)
                                      \o <<r.key>>),
                                    !.focusKey = r.key],
                          nested))

----------------------------------------------------------------------------
(* Directional navigation: src/src/helpers.ts *)

\* ADJACENT_SLICE_THRESHOLD = 0.2, as a percentage.
ADJACENT_SLICE_THRESHOLD_PERCENT == 20

ADJACENT_SLICE_WEIGHT == 5

DIAGONAL_SLICE_WEIGHT == 1

MAIN_COORDINATE_WEIGHT == 5

isVertical(direction) == direction \in {DIRECTION_DOWN, DIRECTION_UP}

Point(x, y) == [x |-> x, y |-> y]

getRefCorners(direction, isSibling, layout) ==
    LET itemX == layout.left
        itemY == layout.top
        itemWidth == layout.width
        itemHeight == layout.height
    IN  CASE direction = DIRECTION_UP ->
                LET y == IF isSibling THEN itemY + itemHeight ELSE itemY
                IN  [a |-> Point(itemX, y), b |-> Point(itemX + itemWidth, y)]
          [] direction = DIRECTION_DOWN ->
                LET y == IF isSibling THEN itemY ELSE itemY + itemHeight
                IN  [a |-> Point(itemX, y), b |-> Point(itemX + itemWidth, y)]
          [] direction = DIRECTION_LEFT ->
                LET x == IF isSibling THEN itemX + itemWidth ELSE itemX
                IN  [a |-> Point(x, itemY), b |-> Point(x, itemY + itemHeight)]
          [] direction = DIRECTION_RIGHT ->
                LET x == IF isSibling THEN itemX ELSE itemX + itemWidth
                IN  [a |-> Point(x, itemY), b |-> Point(x, itemY + itemHeight)]
          [] OTHER -> [a |-> Point(0, 0), b |-> Point(0, 0)]

\* The coordinate of a point along the move axis, and across it.
alongAxis(pt, isVerticalDirection) == IF isVerticalDirection THEN pt.y ELSE pt.x

acrossAxis(pt, isVerticalDirection) == IF isVerticalDirection THEN pt.x ELSE pt.y

getPrimaryAxisDistance(refCorners, siblingCorners, isVerticalDirection) ==
    Abs(alongAxis(siblingCorners.a, isVerticalDirection)
        - alongAxis(refCorners.a, isVerticalDirection))

getSecondaryAxisDistance(refCorners, siblingCorners, isVerticalDirection) ==
    LET refCoordinateA == acrossAxis(refCorners.a, isVerticalDirection)
        refCoordinateB == acrossAxis(refCorners.b, isVerticalDirection)
        siblingCoordinateA == acrossAxis(siblingCorners.a, isVerticalDirection)
        siblingCoordinateB == acrossAxis(siblingCorners.b, isVerticalDirection)
    IN  Min2(Min2(Abs(siblingCoordinateA - refCoordinateA),
                  Abs(siblingCoordinateA - refCoordinateB)),
             Min2(Abs(siblingCoordinateB - refCoordinateA),
                  Abs(siblingCoordinateB - refCoordinateB)))

\* intersectionLength >= (refCoordinateB - refCoordinateA) * 0.2, in integers.
getIsAdjacentSlice(refCorners, siblingCorners, isVerticalDirection) ==
    LET refCoordinateA == acrossAxis(refCorners.a, isVerticalDirection)
        refCoordinateB == acrossAxis(refCorners.b, isVerticalDirection)
        siblingCoordinateA == acrossAxis(siblingCorners.a, isVerticalDirection)
        siblingCoordinateB == acrossAxis(siblingCorners.b, isVerticalDirection)
        intersectionLength ==
            Max2(0, Min2(refCoordinateB, siblingCoordinateB)
                    - Max2(refCoordinateA, siblingCoordinateA))
    IN  intersectionLength * 100
            >= (refCoordinateB - refCoordinateA) * ADJACENT_SLICE_THRESHOLD_PERCENT

\* The distance points alone, adjacent or not.
priorityUnweighted(currentLayout, siblingLayout, direction) ==
    LET isVerticalDirection == isVertical(direction)
        refCorners == getRefCorners(direction, FALSE, currentLayout)
        siblingCorners == getRefCorners(direction, TRUE, siblingLayout)
        isAdjacentSlice ==
            getIsAdjacentSlice(refCorners, siblingCorners, isVerticalDirection)
        primaryAxisDistance ==
            IF isAdjacentSlice
            THEN getPrimaryAxisDistance(refCorners, siblingCorners, isVerticalDirection)
            ELSE getSecondaryAxisDistance(refCorners, siblingCorners, isVerticalDirection)
        secondaryAxisDistance ==
            IF isAdjacentSlice
            THEN getSecondaryAxisDistance(refCorners, siblingCorners, isVerticalDirection)
            ELSE getPrimaryAxisDistance(refCorners, siblingCorners, isVerticalDirection)
    IN  primaryAxisDistance * MAIN_COORDINATE_WEIGHT + secondaryAxisDistance + 1

\* The iteratee of sortSiblingsByPriority, times
\* ADJACENT_SLICE_WEIGHT * DIAGONAL_SLICE_WEIGHT so that it stays an integer:
\* (totalDistancePoints + 1) / weight.
priority(currentLayout, siblingLayout, direction) ==
    LET isVerticalDirection == isVertical(direction)
        refCorners == getRefCorners(direction, FALSE, currentLayout)
        siblingCorners == getRefCorners(direction, TRUE, siblingLayout)
        isAdjacentSlice ==
            getIsAdjacentSlice(refCorners, siblingCorners, isVerticalDirection)
        primaryAxisDistance ==
            IF isAdjacentSlice
            THEN getPrimaryAxisDistance(refCorners, siblingCorners, isVerticalDirection)
            ELSE getSecondaryAxisDistance(refCorners, siblingCorners, isVerticalDirection)
        secondaryAxisDistance ==
            IF isAdjacentSlice
            THEN getSecondaryAxisDistance(refCorners, siblingCorners, isVerticalDirection)
            ELSE getPrimaryAxisDistance(refCorners, siblingCorners, isVerticalDirection)
        totalDistancePoints ==
            primaryAxisDistance * MAIN_COORDINATE_WEIGHT + secondaryAxisDistance
    IN  (totalDistancePoints + 1)
            * (IF isAdjacentSlice THEN DIAGONAL_SLICE_WEIGHT ELSE ADJACENT_SLICE_WEIGHT)

sortSiblingsByPriority(fc, siblings, currentLayout, direction) ==
    sortBy(siblings,
           [k \in Range(siblings) |-> priority(currentLayout, fc[k].layout, direction)])

\* The near edges compared instead of the facing edges.
isValidByNearEdge(dir, fromLayout, toLayout) ==
    CASE dir = DIRECTION_LEFT -> fromLayout.left >= toLayout.left
      [] dir = DIRECTION_RIGHT -> fromLayout.left <= toLayout.left
      [] dir = DIRECTION_DOWN -> toLayout.top >= fromLayout.top
      [] dir = DIRECTION_UP -> fromLayout.top >= toLayout.top
      [] OTHER -> FALSE

\* The direction check of isNodeFocusable, on the cached layouts.
isValidDirectionally(dir, fromLayout, toLayout) ==
    CASE dir = DIRECTION_LEFT -> fromLayout.left >= toLayout.left + toLayout.width
      [] dir = DIRECTION_RIGHT -> fromLayout.left + fromLayout.width <= toLayout.left
      [] dir = DIRECTION_DOWN -> toLayout.top >= fromLayout.top + fromLayout.height
      [] dir = DIRECTION_UP -> fromLayout.top >= toLayout.top + toLayout.height
      [] OTHER -> FALSE

\* isNodeFocusable(dir, from, to) of smartNavigate.
isNodeFocusable(fc, dir, from, to) ==
    /\ fc[to].focusable
    /\ from # to
    /\ fc[from].parentFocusKey = fc[to].parentFocusKey
    /\ isValidDirectionally(dir, fc[from].layout, fc[to].layout)

\* The siblings smartNavigate sorts, and the one it takes (NULL when none).
eligibleSiblings(s, from, direction) ==
    SelectSeq(s.order, LAMBDA to : isNodeFocusable(s.fc, direction, from, to))

nextComponent(s, from, direction) ==
    first(sortSiblingsByPriority(s.fc, eligibleSiblings(s, from, direction),
                                 s.fc[from].layout, direction))

\* Only a missing component stops the climb.
stopsClimbAtMissing(fc, key) == key \notin DOMAIN fc

\* if (!fromComponent || fromComponent.isFocusBoundary) return;
stopsClimb(fc, key) == key \notin DOMAIN fc \/ fc[key].isFocusBoundary

\* smartNavigate(focusKey, direction, focusDetails, svc), with svc.setFocus the
\* engine's focus and svc.saveLastFocusedChildKey its setParentLastFocusedChildKey.
\* `levels` lists the origins of the climb so far; an origin met again (a cyclic
\* parent chain without candidates) recurses for ever.
RECURSIVE smartNavigate(_, _, _, _, _)
\* smartNavigate once the first of the sorted siblings, `next`, is known.
moveOrClimb(s, en, key, direction, levels, next, parent) ==
    IF next # NULL
    THEN [focus(s, en, next) EXCEPT !.levels = Append(levels, key), !.taken = next]
    ELSE smartNavigate(
             IF parent \in DOMAIN s.fc
             THEN [s EXCEPT !.fc[parent].lastFocusedChildKey = key]
             ELSE s,
             en, parent, direction, Append(levels, key))

smartNavigate(s, en, key, direction, levels) ==
    IF stopsClimb(s.fc, key)
    THEN [Result(s) EXCEPT !.levels = levels]
    ELSE IF key \in Range(levels)
    THEN [Result(s) EXCEPT !.levels = levels, !.outcome = "RangeError"]
    ELSE moveOrClimb(s, en, key, direction, levels,
                     nextComponent(s, key, direction), s.fc[key].parentFocusKey)

----------------------------------------------------------------------------
(* Key decoding *)

\* The actions of DEFAULT_KEY_MAP in property order, and their key codes.
KeyMapOrder == <<DIRECTION_LEFT, DIRECTION_UP, DIRECTION_RIGHT, DIRECTION_DOWN, KEY_ENTER>>

DEFAULT_KEY_MAP ==
    [e \in Range(KeyMapOrder) |->
        CASE e = DIRECTION_LEFT -> <<37>>
          [] e = DIRECTION_UP -> <<38>>
          [] e = DIRECTION_RIGHT -> <<39>>
          [] e = DIRECTION_DOWN -> <<40>>
          [] e = KEY_ENTER -> <<13>>]

\* getEventType(keyCode): findKey(keyMap, codeList => codeList.includes(keyCode)).
getEventType(map, keyCode) ==
    first(SelectSeq(KeyMapOrder, LAMBDA e : keyCode \in Range(map[e])))

----------------------------------------------------------------------------
(* State *)

\* A value a key map passed to setKeyMap may hold for an action: a number
\* ("number"), an array of numbers ("array"), or a value of another type.
KeyMapValue(type, number, array) == [type |-> type, number |-> number, array |-> array]

\* normalizeKeyMap(keyMap): a number becomes the array holding it, an array is
\* kept, an entry of another type is left out.
normalizeKeyMap(m) ==
    [e \in {a \in DOMAIN m : m[a].type \in {"number", "array"}} |->
        IF m[e].type = "number" THEN <<m[e].number>> ELSE m[e].array]

\* setKeyMap merging into the default key map.
setKeyMapOverDefault(map, m) ==
    [e \in DOMAIN DEFAULT_KEY_MAP \cup DOMAIN normalizeKeyMap(m) |->
        IF e \in DOMAIN normalizeKeyMap(m)
        THEN normalizeKeyMap(m)[e]
        ELSE DEFAULT_KEY_MAP[e]]

\* setKeyMap(keyMap): this.keyMap = {...this.getKeyMap(), ...normalizeKeyMap(keyMap)}.
setKeyMap(map, m) ==
    [e \in DOMAIN map \cup DOMAIN normalizeKeyMap(m) |->
        IF e \in DOMAIN normalizeKeyMap(m) THEN normalizeKeyMap(m)[e] ELSE map[e]]

\* this.focusableComponents = {}.
NoComponents == [k \in {} |-> NULL]

\* this.pressedKeys = {}.
NoKeys == [e \in {} |-> NULL]

\* The key-downs a key may be held for before it is released.
MaxHeld == 2

\* this.pressedKeys[eventType], 0 when there is none.
held(keys, eventType) == IF eventType \in DOMAIN keys THEN keys[eventType] ELSE 0

\* this.pressedKeys[eventType] = 1, whatever it held.
keyPressedOnce(keys, eventType) ==
    [e \in DOMAIN keys \cup {eventType} |-> IF e = eventType THEN 1 ELSE keys[e]]

\* this.pressedKeys[eventType] = this.pressedKeys[eventType]
\*     ? this.pressedKeys[eventType] + 1 : 1.
keyPressed(keys, eventType) ==
    [e \in DOMAIN keys \cup {eventType} |->
        IF e = eventType THEN held(keys, eventType) + 1 ELSE keys[e]]

\* delete this.pressedKeys[eventType].
keyReleased(keys, eventType) == [e \in DOMAIN keys \ {eventType} |-> keys[e]]

store == [fc |-> focusableComponents, order |-> keyOrder,
          focusKey |-> focusKey, parents |-> parentsHavingFocusedChild]

\* The last operation: its name, its focus key, the focus key before it, what
\* it left behind (see Result), of a key event the key code, of a key-down
\* what onArrowPress returned and whether the throttle dropped it, of an
\* update the payload, and of a focus() whose callback calls focus() the key
\* the callback passes.
Call(op, key, r) ==
    [op |-> op, key |-> key, old |-> focusKey, target |-> r.target,
     path |-> r.path, levels |-> r.levels, taken |-> r.taken,
     code |-> 0, arrow |-> NULL, dropped |-> FALSE, payload |-> <<>>,
     nested |-> NULL, outcome |-> r.outcome]

\* What `call` holds after an operation that neither resolves a focus target nor
\* invokes a callback.
Idle == [op |-> "idle", key |-> NULL, old |-> NULL, target |-> NULL,
         path |-> <<>>, levels |-> <<>>, taken |-> NULL, code |-> 0,
         arrow |-> NULL, dropped |-> FALSE, payload |-> <<>>, nested |-> NULL,
         outcome |-> "ok"]

\* The variables an operation result r = [store, fired, ...] leaves behind.
Commit(r) ==
    /\ focusableComponents' = r.store.fc
    /\ keyOrder' = r.store.order
    /\ focusKey' = r.store.focusKey
    /\ parentsHavingFocusedChild' = r.store.parents
    /\ fired' = r.fired

\* The component addFocusable stores, before its layout is measured.
newComponent(payload) ==
    [parentFocusKey |-> payload.parentFocusKey,
     saveLastFocusedChild |-> payload.saveLastFocusedChild,
     trackChildren |-> payload.trackChildren,
     preferredChildFocusKey |-> payload.preferredChildFocusKey,
     autoRestoreFocus |-> payload.autoRestoreFocus,
     focusable |-> payload.focusable,
     isFocusBoundary |-> payload.isFocusBoundary,
     lastFocusedChildKey |-> NULL,
     layout |-> Box(0, 0, 0, 0)]

\* focusableComponents[key] = value: a new key goes last in property order, an
\* existing key keeps its place.
putComponent(s, key, value) ==
    [s EXCEPT !.fc = [k \in DOMAIN s.fc \cup {key} |->
                         IF k = key THEN value ELSE s.fc[k]],
              !.order = IF key \in DOMAIN s.fc THEN s.order ELSE Append(s.order, key)]

\* delete focusableComponents[key].
deleteComponent(s, key) ==
    [s EXCEPT !.fc = [k \in DOMAIN s.fc \ {key} |-> s.fc[k]],
              !.order = SelectSeq(s.order, LAMBDA k : k # key)]

\* addFocusable(payload).
focusIfFocused(s, en, key) ==
    IF key = s.focusKey THEN focus(s, en, key) ELSE Result(s)

measureStored(s, en, key) ==
    focusIfFocused([s EXCEPT !.fc = updateLayout(s.fc, key)], en, key)

addFocusable(s, en, key, payload) ==
    measureStored(putComponent(s, key, newComponent(payload)), en, key)

\* updateFocusable(focusKey, payload): every field of the payload type is
\* assigned; one the payload omits is assigned undefined, which is falsy.
updateFocusable(s, key, payload) ==
    IF key \notin DOMAIN s.fc
    THEN s
    ELSE [s EXCEPT !.fc[key] =
            [@ EXCEPT
               !.preferredChildFocusKey =
                   IF "preferredChildFocusKey" \in DOMAIN payload
                   THEN payload.preferredChildFocusKey ELSE NULL,
               !.focusable =
                   IF "focusable" \in DOMAIN payload THEN payload.focusable ELSE FALSE,
               !.isFocusBoundary =
                   IF "isFocusBoundary" \in DOMAIN payload
                   THEN payload.isFocusBoundary ELSE FALSE]]

\* The end of removeFocusable: focus goes to the parent of the removed component
\* if that was focused and the parent restores focus.
restoreFocus(s, en, parentFocusKey, isFocused) ==
    IF /\ isFocused
       /\ parentFocusKey \in DOMAIN s.fc
       /\ s.fc[parentFocusKey].autoRestoreFocus
    THEN focus(s, en, parentFocusKey)
    ELSE Result(s)

\* The focusable children of the removed component go to the root.
reparentToRoot(fc, key, parentFocusKey) ==
    [k \in DOMAIN fc |->
        IF fc[k].parentFocusKey = key /\ fc[k].focusable
        THEN [fc[k] EXCEPT !.parentFocusKey = ROOT_FOCUS_KEY]
        ELSE fc[k]]

\* The focusable children of the removed component go to its parent.
reparentChildren(fc, key, parentFocusKey) ==
    [k \in DOMAIN fc |->
        IF fc[k].parentFocusKey = key /\ fc[k].focusable
        THEN [fc[k] EXCEPT !.parentFocusKey = parentFocusKey]
        ELSE fc[k]]

\* The parent of the removed component forgets it as last focused child.
clearLastFocusedChild(fc, key, parentFocusKey) ==
    IF parentFocusKey \in DOMAIN fc /\ fc[parentFocusKey].lastFocusedChildKey = key
    THEN [fc EXCEPT ![parentFocusKey].lastFocusedChildKey = NULL]
    ELSE fc

\* removeFocusable after the delete.
forgetRemoved(s, en, key, parentFocusKey, isFocused) ==
    restoreFocus(
        [s EXCEPT !.fc = reparentChildren(
                             clearLastFocusedChild(s.fc, key, parentFocusKey),
                             key, parentFocusKey)],
        en, parentFocusKey, isFocused)

\* removeFocusable({ focusKey }).
removeFocusable(s, en, key) ==
    IF key \notin DOMAIN s.fc
    THEN Result(s)
    ELSE forgetRemoved(deleteComponent(s, key), en, key,
                       s.fc[key].parentFocusKey, key = s.focusKey)

\* updateAllLayouts().
updateAllLayouts(s) == [s EXCEPT !.fc = updateLayouts(s.fc, s.order)]

\* this.updateAllLayouts() after an onNavigate that returned.
navigated(n) ==
    IF n.outcome = "ok" THEN [n EXCEPT !.store = updateAllLayouts(n.store)] ELSE n

\* onKeyEvent(event): the focused component's onNavigate is smartNavigate (the
\* default of useFocusable); a missing focused component makes the property
\* access throw, and updateAllLayouts runs only after a navigation that returned.
onKeyEvent(s, en, direction) ==
    IF s.focusKey \notin DOMAIN s.fc
    THEN [Result(s) EXCEPT !.outcome = "TypeError"]
    ELSE navigated(smartNavigate(s, en, s.focusKey, direction, <<>>))

\* The values an onArrowPress callback may return.
ArrowResults == {"false", "true", "undefined"}

\* onArrowPress did not return false: its call precedes what onKeyEvent did.
arrowPressed(s, k) ==
    [k EXCEPT !.fired =
        (IF s.focusKey \in DOMAIN s.fc
         THEN <<Cb("onArrowPress", s.focusKey, TRUE)>>
         ELSE <<>>) \o @]

\* keyDownEventListener suppressing the navigation on any value but true.
keyDownEventListenerUnlessTrue(s, en, eventType, arrowResult) ==
    IF eventType = KEY_ENTER /\ s.focusKey # NULL
    THEN [Result(s) EXCEPT
             !.fired = IF isParticipatingFocusableComponent(s.fc, s.focusKey)
                       THEN <<Cb("onEnterPress", s.focusKey, TRUE)>>
                       ELSE <<>>]
    ELSE IF s.focusKey \in DOMAIN s.fc /\ arrowResult # "true"
    THEN [Result(s) EXCEPT !.fired = <<Cb("onArrowPress", s.focusKey, FALSE)>>]
    ELSE arrowPressed(s, onKeyEvent(s, en, eventType))

\* keyDownEventListener calling onEnterPress on a registered component whether
\* it is focusable or not.
keyDownEventListenerEnterAlways(s, en, eventType, arrowResult) ==
    IF eventType = KEY_ENTER /\ s.focusKey # NULL
    THEN [Result(s) EXCEPT
             !.fired = IF s.focusKey \in DOMAIN s.fc
                       THEN <<Cb("onEnterPress", s.focusKey, TRUE)>>
                       ELSE <<>>]
    ELSE IF s.focusKey \in DOMAIN s.fc /\ arrowResult = "false"
    THEN [Result(s) EXCEPT !.fired = <<Cb("onArrowPress", s.focusKey, FALSE)>>]
    ELSE arrowPressed(s, onKeyEvent(s, en, eventType))

\* keyDownEventListener(event) once the event type is decoded; arrowResult is what
\* the focused component's onArrowPress returns, if it is called.
keyDownEventListener(s, en, eventType, arrowResult) ==
    IF eventType = KEY_ENTER /\ s.focusKey # NULL
    THEN \* onEnterPress(keysDetails)
         [Result(s) EXCEPT
             !.fired = IF isParticipatingFocusableComponent(s.fc, s.focusKey)
                       THEN <<Cb("onEnterPress", s.focusKey, TRUE)>>
                       ELSE <<>>]
    ELSE IF s.focusKey \in DOMAIN s.fc /\ arrowResult = "false"
    THEN [Result(s) EXCEPT !.fired = <<Cb("onArrowPress", s.focusKey, FALSE)>>]
    ELSE arrowPressed(s, onKeyEvent(s, en, eventType))

\* keyUpEventListener(event) after the delete: onEnterRelease() for enter while
\* a focus key is set, which calls the callback of a registered, focusable
\* component.
keyUpEventListener(s, eventType) ==
    [Result(s) EXCEPT
        !.fired = IF /\ eventType = KEY_ENTER
                     /\ s.focusKey # NULL
                     /\ isParticipatingFocusableComponent(s.fc, s.focusKey)
                  THEN <<Cb("onEnterRelease", s.focusKey, TRUE)>>
                  ELSE <<>>]

----------------------------------------------------------------------------
(* Actions *)

Halted == call.outcome = "hang"

\* No key-down event is on its way through the listeners of window.
NoEvent == [code |-> 0, at |-> 0]

\* window is handing a key-down event to its listeners, in the order they were
\* registered: the listener inFlight.at is the next to run, the current one
\* counting as the last.  Nothing else runs in between.
Delivering == inFlight # NoEvent

\* The throttled key-down listeners a model run may leave registered.
MaxStale == 1

\* The key-down listeners on window after destroy(): this.throttle is 0 when
\* unbindEventHandlers picks the listener to remove, so it removes
\* this.keyDownEventListener; a throttled listener, which is what was
\* registered if this.throttle was set, stays, with its timer.
leakedListeners(wait, timer, stale) ==
    IF wait # 0 THEN Append(stale, timer) ELSE stale

\* In an application that holds keys ("hold") a key stays down while other
\* operations run; in the others a key is released before anything else
\* happens.
Settled == "hold" \in universe.ops \/ DOMAIN pressedKeys = {}

\* The next operation may start.
Ready == ~Halted /\ Settled /\ ~Delivering

\* The focus keys of the application.
AppIds == DOMAIN universe.adds

\* The last value of onUpdateFocus each registered component was called with:
\* the keys for which it is true, of those in `before` and those called in cbs.
toldFocused(before, cbs, fc) ==
    {k \in DOMAIN fc :
        IF \E i \in DOMAIN cbs : cbs[i].cb = "onUpdateFocus" /\ cbs[i].key = k
        THEN \E i \in DOMAIN cbs :
                /\ cbs[i] = Cb("onUpdateFocus", k, TRUE)
                /\ \A j \in DOMAIN cbs :
                      (cbs[j].cb = "onUpdateFocus" /\ cbs[j].key = k) => j <= i
        ELSE k \in before}

\* The last value of onUpdateHasFocusedChild each registered component was
\* called with: the keys for which it is true, of those in `before` and those
\* called in cbs.
toldHasFocusedChild(before, cbs, fc) ==
    {k \in DOMAIN fc :
        IF \E i \in DOMAIN cbs : cbs[i].cb = "onUpdateHasFocusedChild" /\ cbs[i].key = k
        THEN \E i \in DOMAIN cbs :
                /\ cbs[i] = Cb("onUpdateHasFocusedChild", k, TRUE)
                /\ \A j \in DOMAIN cbs :
                      (cbs[j].cb = "onUpdateHasFocusedChild" /\ cbs[j].key = k)
                      => j <= i
        ELSE k \in before}

\* An operation named op on key has ended with r.
Done(op, key, r) ==
    /\ Commit(r)
    /\ focused' = toldFocused(focused, r.fired, r.store.fc)
    /\ hasFocusedChild' = toldHasFocusedChild(hasFocusedChild, r.fired, r.store.fc)
    /\ call' = Call(op, key, r)

\* addFocusable has ended with r: the component registered under key is a new
\* one, which has been told nothing before.
Added(key, r) ==
    /\ Commit(r)
    /\ focused' = toldFocused(focused \ {key}, r.fired, r.store.fc)
    /\ hasFocusedChild' = toldHasFocusedChild(hasFocusedChild \ {key}, r.fired,
                                              r.store.fc)
    /\ call' = Call("addFocusable", key, r)

\* init({throttle, throttleKeypresses}): the first call enables the engine,
\* keeps a throttle above 0 and binds the listeners, the key-down listener
\* throttled anew if this.throttle is set.
InitEngine ==
    /\ Ready
    /\ ~enabled
    /\ enabled' = TRUE
    /\ \E options \in universe.throttles :
          /\ throttleKeypresses' = options.throttleKeypresses
          /\ throttle' = IF options.throttle > 0 THEN options.throttle ELSE throttle
    /\ throttleTimer' = FALSE
    /\ fired' = <<>>
    /\ call' = Call("init", NULL, Result(store))
    /\ UNCHANGED <<focusableComponents, keyOrder, focusKey,
                   parentsHavingFocusedChild, paused, dom, universe,
                   pressedKeys, dispatched, focused, hasFocusedChild,
                   keyMap,
                   staleListeners, inFlight>>

\* destroy().
Destroy ==
    /\ Ready
    /\ "destroy" \in universe.ops
    /\ enabled
    /\ throttle = 0 \/ Len(staleListeners) < MaxStale
    /\ staleListeners' = leakedListeners(throttle, throttleTimer, staleListeners)
    /\ enabled' = FALSE
    /\ focusKey' = NULL
    /\ parentsHavingFocusedChild' = <<>>
    /\ focusableComponents' = NoComponents
    /\ keyOrder' = <<>>
    /\ paused' = FALSE
    /\ focused' = {}
    /\ hasFocusedChild' = {}
    /\ fired' = <<>>
    /\ throttle' = 0
    /\ throttleKeypresses' = FALSE
    /\ throttleTimer' = FALSE
    /\ keyMap' = DEFAULT_KEY_MAP
    /\ call' = Call("destroy", NULL, Result(store))
    /\ UNCHANGED <<dom, universe, pressedKeys, dispatched,
                   inFlight>>

Pause ==
    /\ Ready
    /\ "pause" \in universe.ops
    /\ paused' = TRUE
    /\ fired' = <<>>
    /\ call' = Idle
    /\ UNCHANGED <<focusableComponents, keyOrder, focusKey,
                   parentsHavingFocusedChild, enabled, dom, universe,
                   pressedKeys, dispatched, focused, hasFocusedChild,
                   throttle, throttleKeypresses, throttleTimer, keyMap,
                   staleListeners, inFlight>>

Resume ==
    /\ Ready
    /\ "resume" \in universe.ops
    /\ paused' = FALSE
    /\ fired' = <<>>
    /\ call' = Idle
    /\ UNCHANGED <<focusableComponents, keyOrder, focusKey,
                   parentsHavingFocusedChild, enabled, dom, universe,
                   pressedKeys, dispatched, focused, hasFocusedChild,
                   throttle, throttleKeypresses, throttleTimer, keyMap,
                   staleListeners, inFlight>>

\* A parent that is the root sentinel or a registered component.
parentIsKnown(fc, parentFocusKey) ==
    parentFocusKey = ROOT_FOCUS_KEY \/ parentFocusKey \in DOMAIN fc

\* addFocusable(payload); an application that registers parents first never
\* passes a parentFocusKey that is not registered.
AddFocusable ==
    /\ Ready
    /\ \E key \in AppIds : \E payload \in universe.adds[key] :
          /\ "parentFirst" \in universe.ops
                => parentIsKnown(focusableComponents, payload.parentFocusKey)
          /\ Added(key, addFocusable(store, enabled, key, payload))
    /\ UNCHANGED <<enabled, paused, dom, universe, pressedKeys, dispatched,
                   throttle, throttleKeypresses, throttleTimer, keyMap,
                   staleListeners, inFlight>>

\* An updateFocusable(key, payload) has ended with r.
Updated(key, payload, r) ==
    /\ Commit(r)
    /\ focused' = focused
    /\ hasFocusedChild' = hasFocusedChild
    /\ call' = [Call("updateFocusable", key, r) EXCEPT !.payload = payload]

UpdateFocusable ==
    /\ Ready
    /\ "update" \in universe.ops
    /\ \E key \in AppIds : \E payload \in universe.updates[key] :
          Updated(key, payload, Result(updateFocusable(store, key, payload)))
    /\ UNCHANGED <<enabled, paused, dom, universe, pressedKeys, dispatched,
                   throttle, throttleKeypresses, throttleTimer, keyMap,
                   staleListeners, inFlight>>

RemoveFocusable ==
    /\ Ready
    /\ "remove" \in universe.ops
    /\ \E key \in AppIds :
          Done("removeFocusable", key, removeFocusable(store, enabled, key))
    /\ UNCHANGED <<enabled, paused, dom, universe, pressedKeys, dispatched,
                   throttle, throttleKeypresses, throttleTimer, keyMap,
                   staleListeners, inFlight>>

\* The public focus(targetFocusKey), for a registered or an unknown key.
SetFocus ==
    /\ Ready
    /\ \E key \in AppIds : Done("focus", key, focus(store, enabled, key))
    /\ UNCHANGED <<enabled, paused, dom, universe, pressedKeys, dispatched,
                   throttle, throttleKeypresses, throttleTimer, keyMap,
                   staleListeners, inFlight>>

\* A focus(key) whose callback called focus(nested) has ended with r.
Reentered(op, key, nested, r) ==
    /\ Commit(r)
    /\ focused' = toldFocused(focused, r.fired, r.store.fc)
    /\ hasFocusedChild' = toldHasFocusedChild(hasFocusedChild, r.fired, r.store.fc)
    /\ call' = [Call(op, key, r) EXCEPT !.nested = nested]

\* focus(key) with the engine enabled, where the onBlur callback it invokes on
\* the old component, or the onFocus callback it invokes on the new one, calls
\* focus(nested) in its turn; the callbacks of the nested call call nothing.
FocusFromCallback ==
    /\ Ready
    /\ "reenter" \in universe.ops
    /\ enabled
    /\ \E key \in AppIds : \E nested \in AppIds :
          \/ /\ blursOld(store, getValidLeafFocusKey(store, key, <<>>))
             /\ Reentered("focus, onBlur calls focus", key, nested,
                          focusOnBlurCalling(store, key, nested,
                                             getValidLeafFocusKey(store, key, <<>>)))
          \/ /\ focusesNew(store, getValidLeafFocusKey(store, key, <<>>))
             /\ Reentered("focus, onFocus calls focus", key, nested,
                          focusOnFocusCalling(store, key, nested,
                                              getValidLeafFocusKey(store, key, <<>>)))
    /\ UNCHANGED <<enabled, paused, dom, universe, pressedKeys, dispatched,
                   throttle, throttleKeypresses, throttleTimer, keyMap,
                   staleListeners, inFlight>>

\* keyDownEventListener(event) from its start: nothing happens while paused or
\* for a key the key map does not hold.
decoded(s, en, eventType, arrowResult) ==
    IF paused \/ eventType = NULL
    THEN Result(s)
    ELSE keyDownEventListener(s, en, eventType, arrowResult)

\* this.pressedKeys after a key-down: counted unless the engine is paused or the
\* key map does not hold the key.
countedDown(keys, eventType) ==
    IF paused \/ eventType = NULL THEN keys ELSE keyPressed(keys, eventType)

\* A key-down event has ended with r.
KeyDone(keyCode, arrowResult, r) ==
    /\ Commit(r)
    /\ pressedKeys' = countedDown(pressedKeys, getEventType(keyMap, keyCode))
    /\ dispatched' = IF ~paused /\ getEventType(keyMap, keyCode) \in DOMAIN dispatched
                     THEN [dispatched EXCEPT ![getEventType(keyMap, keyCode)] = @ + 1]
                     ELSE dispatched
    /\ focused' = toldFocused(focused, r.fired, r.store.fc)
    /\ hasFocusedChild' = toldHasFocusedChild(hasFocusedChild, r.fired, r.store.fc)
    /\ call' = [Call("keydown", NULL, r) EXCEPT !.code = keyCode, !.arrow = arrowResult]

\* throttle(listener, this.throttle, THROTTLE_OPTIONS) is what a key-down
\* reaches when this.throttle is set: with leading: true and trailing: false it
\* calls the listener at once unless the timer of an earlier call is pending,
\* and then it drops the event.
dropsKeyDown(wait, timer) == wait # 0 /\ timer

\* The throttled listener starts its timer when it calls the listener.
timerAfterKeyDown(wait, timer) == IF wait # 0 THEN TRUE ELSE timer

\* A key-down event that the throttled listener has dropped.
KeyDropped(keyCode) ==
    /\ Commit(Result(store))
    /\ pressedKeys' = pressedKeys
    /\ dispatched' = dispatched
    /\ focused' = focused
    /\ hasFocusedChild' = hasFocusedChild
    /\ call' = [Call("keydown", NULL, Result(store)) EXCEPT
                   !.code = keyCode, !.dropped = TRUE]

\* A key-down event may start on its way through the listeners: the keys of
\* the application are not held longer than MaxHeld key-downs.
mayPress(keyCode) ==
    held(pressedKeys, getEventType(keyMap, keyCode))
        + Len(staleListeners) + (IF enabled THEN 1 ELSE 0) <= MaxHeld

\* A key-down event reaching a throttled key-down listener that destroy left on
\* window.  The listener calls the keyDownEventListener it was made from, which
\* works on the engine as it is now, unless its own timer is pending, and
\* starts its timer; then the event goes on to the next listener, if any.
KeyDownStale ==
    /\ ~Halted /\ Settled
    /\ "keydown" \in universe.ops
    /\ \E i \in DOMAIN staleListeners :
       \E keyCode \in universe.keys : \E arrowResult \in ArrowResults :
          /\ IF Delivering
             THEN i = inFlight.at /\ keyCode = inFlight.code
             ELSE i = 1 /\ mayPress(keyCode)
          /\ IF staleListeners[i]
             THEN KeyDropped(keyCode)
             ELSE KeyDone(keyCode, arrowResult,
                          decoded(store, enabled, getEventType(keyMap, keyCode),
                                  arrowResult))
          /\ staleListeners' = [staleListeners EXCEPT ![i] = TRUE]
          /\ inFlight' = IF i < Len(staleListeners) \/ enabled
                         THEN [code |-> keyCode, at |-> i + 1]
                         ELSE NoEvent
    /\ UNCHANGED <<enabled, paused, dom, universe,
                   throttle, throttleKeypresses, throttleTimer, keyMap>>

\* A key-down event reaching the key-down listener that init binds and destroy
\* tries to unbind: keyDownEventListener, or the throttled one if this.throttle
\* is set.  It is the last listener registered, so the event reaches it after
\* the listeners destroy left on window.
KeyDown ==
    /\ ~Halted /\ Settled
    /\ "keydown" \in universe.ops
    /\ enabled
    /\ \E keyCode \in universe.keys : \E arrowResult \in ArrowResults :
          /\ IF staleListeners = <<>>
             THEN ~Delivering /\ mayPress(keyCode)
             ELSE inFlight = [code |-> keyCode, at |-> Len(staleListeners) + 1]
          /\ IF dropsKeyDown(throttle, throttleTimer)
             THEN KeyDropped(keyCode)
             ELSE KeyDone(keyCode, arrowResult,
                          decoded(store, enabled, getEventType(keyMap, keyCode),
                                  arrowResult))
    /\ throttleTimer' = timerAfterKeyDown(throttle, throttleTimer)
    /\ inFlight' = NoEvent
    /\ UNCHANGED <<enabled, paused, dom, universe,
                   throttle, throttleKeypresses, keyMap,
                   staleListeners>>

\* A key-up event has ended with r.
KeyUpDone(keyCode, r) ==
    /\ Commit(r)
    /\ pressedKeys' = keyReleased(pressedKeys, getEventType(keyMap, keyCode))
    /\ dispatched' = IF getEventType(keyMap, keyCode) \in DOMAIN dispatched
                     THEN [dispatched EXCEPT ![getEventType(keyMap, keyCode)] = 0]
                     ELSE dispatched
    /\ focused' = focused
    /\ hasFocusedChild' = hasFocusedChild
    /\ call' = [Call("keyup", NULL, r) EXCEPT !.code = keyCode]

\* if (this.throttle && !this.throttleKeypresses)
\*     this.keyDownEventListenerThrottled.cancel(): cancel() clears the timer.
timerAfterKeyUp(wait, keypresses, timer) ==
    IF wait # 0 /\ ~keypresses THEN FALSE ELSE timer

\* A key-up event reaching keyUpEventListener, which init binds and destroy
\* unbinds.  Where keys are not held, the key released is the one pressed.
KeyUp ==
    /\ ~Halted /\ ~Delivering
    /\ "keydown" \in universe.ops
    /\ enabled
    /\ \E keyCode \in universe.keys :
          /\ \/ "hold" \in universe.ops
             \/ getEventType(keyMap, keyCode) \in DOMAIN pressedKeys
          /\ KeyUpDone(keyCode,
                       keyUpEventListener(store, getEventType(keyMap, keyCode)))
    /\ throttleTimer' = timerAfterKeyUp(throttle, throttleKeypresses, throttleTimer)
    /\ UNCHANGED <<enabled, paused, dom, universe,
                   throttle, throttleKeypresses, keyMap,
                   staleListeners, inFlight>>

\* setThrottle({throttle, throttleKeypresses}) of an application that calls it
\* after init: the listeners are unbound and bound again, the key-down listener
\* throttled anew if this.throttle is set.
SetThrottle ==
    /\ Ready
    /\ "setThrottle" \in universe.ops
    /\ enabled
    /\ \E options \in universe.throttles :
          /\ throttleKeypresses' = options.throttleKeypresses
          /\ throttle' = options.throttle
    /\ throttleTimer' = FALSE
    /\ fired' = <<>>
    /\ call' = Call("setThrottle", NULL, Result(store))
    /\ UNCHANGED <<focusableComponents, keyOrder, focusKey,
                   parentsHavingFocusedChild, enabled, paused, dom, universe,
                   pressedKeys, dispatched, focused, hasFocusedChild,
                   keyMap,
                   staleListeners, inFlight>>

\* this.throttle milliseconds have passed since the throttled listener called
\* the key-down listener: its timer is no longer pending.
ThrottleElapses ==
    /\ ~Halted /\ ~Delivering
    /\ throttleTimer
    /\ throttleTimer' = FALSE
    /\ fired' = <<>>
    /\ call' = Idle
    /\ UNCHANGED <<focusableComponents, keyOrder, focusKey,
                   parentsHavingFocusedChild, enabled, paused, dom, universe,
                   pressedKeys, dispatched, focused, hasFocusedChild,
                   throttle, throttleKeypresses, keyMap,
                   staleListeners, inFlight>>

\* The wait of a throttled key-down listener that destroy left on window has
\* passed since it last called its listener.
StaleThrottleElapses ==
    /\ ~Halted /\ ~Delivering
    /\ \E i \in DOMAIN staleListeners :
          /\ staleListeners[i]
          /\ staleListeners' = [staleListeners EXCEPT ![i] = FALSE]
    /\ fired' = <<>>
    /\ call' = Idle
    /\ UNCHANGED <<focusableComponents, keyOrder, focusKey,
                   parentsHavingFocusedChild, enabled, paused, dom, universe,
                   pressedKeys, dispatched, focused, hasFocusedChild,
                   throttle, throttleKeypresses, throttleTimer, inFlight, keyMap>>

\* The public updateAllLayouts().
UpdateAllLayouts ==
    /\ Ready
    /\ "updateAllLayouts" \in universe.ops
    /\ Commit(Result(updateAllLayouts(store)))
    /\ call' = Idle
    /\ UNCHANGED <<enabled, paused, dom, universe,
                   pressedKeys, dispatched, focused, hasFocusedChild,
                   throttle, throttleKeypresses, throttleTimer, keyMap,
                   staleListeners, inFlight>>

\* The page lays a node out again: the layout provider reports another box.
Relayout ==
    /\ Ready
    /\ "relayout" \in universe.ops
    /\ \E key \in AppIds : \E box \in universe.boxes[key] :
          /\ box # dom[key]
          /\ dom' = [dom EXCEPT ![key] = box]
    /\ fired' = <<>>
    /\ call' = Idle
    /\ UNCHANGED <<focusableComponents, keyOrder, focusKey,
                   parentsHavingFocusedChild, enabled, paused, universe,
                   pressedKeys, dispatched, focused, hasFocusedChild,
                   throttle, throttleKeypresses, throttleTimer, keyMap,
                   staleListeners, inFlight>>

\* setKeyMap(keyMap) with a key map of the application.
SetKeyMap ==
    /\ Ready
    /\ "setKeyMap" \in universe.ops
    /\ \E m \in universe.keyMaps :
          /\ keyMap' = setKeyMap(keyMap, m)
          /\ call' = [Call("setKeyMap", NULL, Result(store)) EXCEPT !.payload = m]
    /\ fired' = <<>>
    /\ UNCHANGED <<focusableComponents, keyOrder, focusKey,
                   parentsHavingFocusedChild, enabled, paused, dom, universe,
                   pressedKeys, dispatched, focused, hasFocusedChild,
                   throttle, throttleKeypresses,
                   throttleTimer,
                   staleListeners, inFlight>>

Next ==
    \/ InitEngine
    \/ Destroy
    \/ Pause
    \/ Resume
    \/ AddFocusable
    \/ UpdateFocusable
    \/ RemoveFocusable
    \/ SetFocus
    \/ FocusFromCallback
    \/ KeyDownStale
    \/ KeyDown
    \/ KeyUp
    \/ UpdateAllLayouts
    \/ Relayout
    \/ SetThrottle
    \/ ThrottleElapses
    \/ StaleThrottleElapses
    \/ SetKeyMap

----------------------------------------------------------------------------
(* The applications: what each registers, where its nodes lie, what it calls *)

\* The payload of useFocusable's defaults under a parent.
Payload(parent) ==
    [parentFocusKey |-> parent, saveLastFocusedChild |-> TRUE,
     trackChildren |-> FALSE, preferredChildFocusKey |-> NULL,
     autoRestoreFocus |-> TRUE, focusable |-> TRUE, isFocusBoundary |-> FALSE]

Container == [Payload(ROOT_FOCUS_KEY) EXCEPT !.trackChildren = TRUE]

\* One application: for each focus key the payloads it is registered with and
\* updated with and the boxes its node takes, the key codes pressed, and the
\* operations called besides init, addFocusable and focus ("parentFirst" is no
\* operation: it marks an application that registers parents before children).
\* It passes no throttle to init and sets no key map unless it says so.
App(adds, updates, boxes, keys, ops) ==
    [adds |-> adds, updates |-> updates, boxes |-> boxes, keys |-> keys, ops |-> ops,
     throttles |-> {[throttle |-> 0, throttleKeypresses |-> FALSE]},
     keyMaps |-> {}]

NoUpdates == [k \in Ids |-> {}]

\* a holds b at its left and c further right, whether c is inside a or beside it.
RowBoxes ==
    [k \in Ids |-> CASE k = "a" -> {Box(0, 0, 30, 30)}
                     [] k = "b" -> {Box(0, 0, 10, 10)}
                     [] k = "c" -> {Box(40, 0, 10, 10)}]

\* A container with two children.
FamilyApp ==
    App([k \in Ids |-> IF k = "a" THEN {Container} ELSE {Payload("a")}],
        NoUpdates, RowBoxes, {39}, {"remove", "keydown", "destroy"})

\* a holds b, b holds c or c lies beside a; a or b may be a focus boundary.
ChainApp ==
    App([k \in Ids |->
           CASE k = "a" -> {Payload(ROOT_FOCUS_KEY),
                            [Payload(ROOT_FOCUS_KEY) EXCEPT !.isFocusBoundary = TRUE]}
             [] k = "b" -> {Payload("a"), [Payload("a") EXCEPT !.isFocusBoundary = TRUE]}
             [] k = "c" -> {Payload("b"), Payload(ROOT_FOCUS_KEY)}],
        NoUpdates, RowBoxes, {37, 39}, {"remove", "keydown"})

\* Preferred children: a prefers itself, its child b, or c; b prefers c, which
\* lies outside b, or its parent a.
PreferredApp ==
    App([k \in Ids |->
           CASE k = "a" -> {[Payload(ROOT_FOCUS_KEY) EXCEPT !.preferredChildFocusKey = p] :
                               p \in {"a", "b", "c"}}
             [] k = "b" -> {[Payload("a") EXCEPT !.preferredChildFocusKey = p] :
                               p \in {"a", "c"}}
             [] k = "c" -> {Payload("a"), Payload(ROOT_FOCUS_KEY)}],
        NoUpdates, RowBoxes, {39}, {"remove"})

\* The family, with b and c made unfocusable and focusable again by updates, and
\* a given a preferred child by one update and none by another.
UpdateApp ==
    App([k \in Ids |-> IF k = "a" THEN {Container} ELSE {Payload("a")}],
        [k \in Ids |->
           IF k = "a"
           THEN {[focusable |-> TRUE, isFocusBoundary |-> FALSE,
                  preferredChildFocusKey |-> "c"],
                 [focusable |-> TRUE, isFocusBoundary |-> FALSE]}
           ELSE {[focusable |-> FALSE, isFocusBoundary |-> FALSE],
                 [focusable |-> TRUE, isFocusBoundary |-> FALSE]}],
        RowBoxes, {39, 13}, {"update", "remove", "keydown"})

\* The family, with c's node moving between its place, b's place and a place
\* as far from the origin as b's.
TieApp ==
    App([k \in Ids |-> IF k = "a" THEN {Container} ELSE {Payload("a")}],
        NoUpdates,
        [RowBoxes EXCEPT !["c"] = {Box(40, 0, 10, 10), Box(0, 0, 10, 10)},
                         !["b"] = {Box(0, 0, 10, 10), Box(0, 40, 10, 10)}],
        {39}, {"remove", "relayout", "updateAllLayouts"})

\* Registration under changing parents: b under a or under c, c under a or
\* under b.
ReparentApp ==
    App([k \in Ids |->
           CASE k = "a" -> {Container}
             [] k = "b" -> {Payload("a"), Payload("c")}
             [] k = "c" -> {Payload("a"), Payload("b")}],
        NoUpdates, RowBoxes, {39}, {"remove"})

\* Containers that do not save the last focused child or restore focus, an
\* unfocusable container, and pause and resume.
FlagsApp ==
    App([k \in Ids |->
           CASE k = "a" -> {[Container EXCEPT !.saveLastFocusedChild = FALSE],
                            [Container EXCEPT !.autoRestoreFocus = FALSE],
                            [Container EXCEPT !.focusable = FALSE]}
             [] k = "b" -> {Payload("a")}
             [] k = "c" -> {Payload("a"), Payload(ROOT_FOCUS_KEY)}],
        NoUpdates, RowBoxes, {39}, {"remove", "keydown", "pause", "resume"})

\* Three siblings on a page: a at the origin; b to its right, near or far, or
\* below a; c below a, below b's near place, or to the right of a and a little
\* lower.  All four arrows are pressed.
GridApp ==
    App([k \in Ids |-> {Payload(ROOT_FOCUS_KEY)}],
        NoUpdates,
        [k \in Ids |->
           CASE k = "a" -> {Box(0, 0, 10, 10)}
             [] k = "b" -> {Box(20, 0, 10, 10), Box(40, 0, 10, 10), Box(0, 20, 10, 10)}
             [] k = "c" -> {Box(0, 20, 10, 10), Box(20, 20, 10, 10), Box(20, 9, 10, 10)}],
        {37, 38, 39, 40}, {"keydown", "relayout"})

\* Two siblings side by side, b moving to the left of a and back and turning
\* unfocusable and focusable again, under every operation of the engine.
PageApp ==
    App([k \in Ids |-> IF k = "c" THEN {} ELSE {Payload(ROOT_FOCUS_KEY)}],
        [k \in Ids |->
           IF k = "b"
           THEN {[focusable |-> FALSE, isFocusBoundary |-> FALSE],
                 [focusable |-> TRUE, isFocusBoundary |-> FALSE]}
           ELSE {}],
        [k \in Ids |->
           CASE k = "a" -> {Box(20, 0, 10, 10)}
             [] k = "b" -> {Box(40, 0, 10, 10), Box(0, 0, 10, 10)}
             [] k = "c" -> {Box(0, 20, 10, 10)}],
        {37, 39},
        {"keydown", "relayout", "updateAllLayouts", "update", "remove", "pause",
         "resume", "destroy", "reenter"})

\* A focus boundary a holding b and c, with d beside it; c may prefer d, which is
\* not a child of it.
EscapeApp ==
    App([k \in Ids \cup {"d"} |->
           CASE k = "a" -> {[Payload(ROOT_FOCUS_KEY) EXCEPT !.isFocusBoundary = TRUE]}
             [] k = "b" -> {Payload("a")}
             [] k = "c" -> {Payload("a"),
                            [Payload("a") EXCEPT !.preferredChildFocusKey = "d"]}
             [] k = "d" -> {Payload(ROOT_FOCUS_KEY)}],
        [k \in Ids \cup {"d"} |-> {}],
        [k \in Ids \cup {"d"} |->
           CASE k = "a" -> {Box(0, 0, 30, 30)}
             [] k = "b" -> {Box(0, 0, 10, 10)}
             [] k = "c" -> {Box(20, 0, 10, 10)}
             [] k = "d" -> {Box(40, 0, 10, 10)}],
        {39}, {"keydown"})

\* A chain a, b, c registered parents first; c may be unfocusable.
OrderlyApp ==
    App([k \in Ids |->
           CASE k = "a" -> {Payload(ROOT_FOCUS_KEY)}
             [] k = "b" -> {Payload("a")}
             [] k = "c" -> {Payload("b"), [Payload("b") EXCEPT !.focusable = FALSE]}],
        NoUpdates, RowBoxes, {39}, {"parentFirst", "remove"})

\* Two siblings, with arrow and enter keys held down while the engine is paused
\* and resumed.
HeldApp ==
    App([k \in Ids |-> IF k = "c" THEN {} ELSE {Payload(ROOT_FOCUS_KEY)}],
        NoUpdates, RowBoxes, {39, 13}, {"keydown", "hold", "pause", "resume"})

\* Two siblings and the arrow keys between them, held or pressed again, under
\* every throttle the application may pass to init and to setThrottle.
ThrottleApp ==
    [App([k \in Ids |-> IF k = "c" THEN {} ELSE {Payload(ROOT_FOCUS_KEY)}],
         NoUpdates,
         [k \in Ids |-> IF k = "a" THEN {Box(0, 0, 10, 10)} ELSE {Box(20, 0, 10, 10)}],
         {37, 39}, {"keydown", "hold", "setThrottle"})
     EXCEPT !.throttles = [throttle : {0, 100}, throttleKeypresses : BOOLEAN]]

\* Two siblings and the right arrow, held or pressed again, in an application
\* that starts the engine with a throttle or without, destroys it and may
\* start it again.
LeakApp ==
    [App([k \in Ids |-> IF k = "c" THEN {} ELSE {Payload(ROOT_FOCUS_KEY)}],
         NoUpdates,
         [k \in Ids |-> IF k = "a" THEN {Box(0, 0, 10, 10)} ELSE {Box(20, 0, 10, 10)}],
         {39}, {"keydown", "hold", "destroy"})
     EXCEPT !.throttles = [throttle : {0, 100}, throttleKeypresses : {FALSE}]]

\* Two siblings, the right arrow and the key D, and key maps that give an
\* action an array, a number, nothing at all, or a value of another type.
KeyMapApp ==
    [App([k \in Ids |-> IF k = "c" THEN {} ELSE {Payload(ROOT_FOCUS_KEY)}],
         NoUpdates,
         [k \in Ids |-> IF k = "a" THEN {Box(0, 0, 10, 10)} ELSE {Box(20, 0, 10, 10)}],
         {39, 68}, {"keydown", "setKeyMap", "destroy"})
     EXCEPT !.keyMaps =
        {[e \in {DIRECTION_RIGHT} |-> KeyMapValue("array", 0, <<39, 68>>)],
         [e \in {DIRECTION_LEFT} |-> KeyMapValue("number", 68, <<>>)],
         [e \in {DIRECTION_RIGHT, KEY_ENTER} |->
            IF e = KEY_ENTER
            THEN KeyMapValue("number", 68, <<>>)
            ELSE KeyMapValue("string", 0, <<>>)],
         [e \in {DIRECTION_UP} |-> KeyMapValue("array", 0, <<>>)]}]

\* a holds b, which may save its last focused child or not and holds d at its
\* left and c at its right; e lies beside a.  Parents are registered first.
RestoreApp ==
    App([k \in Ids \cup {"d", "e"} |->
           CASE k = "a" -> {Payload(ROOT_FOCUS_KEY)}
             [] k = "b" -> {Payload("a"),
                            [Payload("a") EXCEPT !.saveLastFocusedChild = FALSE]}
             [] k \in {"c", "d"} -> {Payload("b")}
             [] k = "e" -> {Payload(ROOT_FOCUS_KEY)}],
        [k \in Ids \cup {"d", "e"} |-> {}],
        [k \in Ids \cup {"d", "e"} |->
           CASE k = "a" -> {Box(0, 0, 30, 30)}
             [] k = "b" -> {Box(0, 0, 30, 10)}
             [] k = "c" -> {Box(20, 0, 10, 10)}
             [] k = "d" -> {Box(0, 0, 10, 10)}
             [] k = "e" -> {Box(40, 0, 10, 10)}],
        {39}, {"parentFirst", "keydown"})

\* a holds b and c and is registered again under b, its child; every parent is
\* registered when a component names it.
AdoptedApp ==
    App([k \in Ids |->
           CASE k = "a" -> {Payload(ROOT_FOCUS_KEY), Payload("b")}
             [] k = "b" -> {Payload("a")}
             [] k = "c" -> {Payload("a")}],
        NoUpdates, RowBoxes, {39}, {"parentFirst"})

\* The family, with onBlur and onFocus callbacks that call focus().
ReentrantApp ==
    App([k \in Ids |-> IF k = "a" THEN {Container} ELSE {Payload("a")}],
        NoUpdates, RowBoxes, {39}, {"reenter"})

Apps == {FamilyApp, ChainApp, PreferredApp, UpdateApp, TieApp, ReparentApp, FlagsApp,
         EscapeApp, OrderlyApp, ReentrantApp, HeldApp, ThrottleApp,
         KeyMapApp, RestoreApp, LeakApp, AdoptedApp}

NavApps == {GridApp, PageApp, ChainApp, ThrottleApp, KeyMapApp, LeakApp}

InitWith(apps) ==
    /\ focusableComponents = NoComponents
    /\ keyOrder = <<>>
    /\ focusKey = NULL
    /\ parentsHavingFocusedChild = <<>>
    /\ enabled = FALSE
    /\ paused = FALSE
    /\ universe \in apps
    /\ dom \in [AppIds -> UNION {universe.boxes[k] : k \in AppIds}]
    /\ \A k \in AppIds : dom[k] \in universe.boxes[k]
    /\ pressedKeys = NoKeys
    /\ dispatched = [e \in Range(KeyMapOrder) |-> 0]
    /\ focused = {}
    /\ hasFocusedChild = {}
    /\ throttle = 0
    /\ throttleKeypresses = FALSE
    /\ throttleTimer = FALSE
    /\ staleListeners = <<>>
    /\ inFlight = NoEvent
    /\ keyMap = DEFAULT_KEY_MAP
    /\ fired = <<>>
    /\ call = Idle

Init == InitWith(Apps)

Spec == Init /\ [][Next]_vars

\* The applications that move the focus with the arrows over changing pages.
InitNav == InitWith(NavApps)

SpecNav == InitNav /\ [][Next]_vars

----------------------------------------------------------------------------
(* Claims *)

\* C1: with the engine enabled, a second focus(x) right after a focus(x) that
\* returned invokes no callback and leaves the current focus where the first
\* call put it.
C1_SecondFocusIsSilent ==
    [][(/\ enabled
        /\ call.op = "focus" /\ call.outcome = "ok"
        /\ call'.op = "focus" /\ call'.key = call.key)
       => (fired' = <<>> /\ focusKey' = focusKey)]_vars


\* The place of key in the property order.
Position(order, key) == CHOOSE i \in DOMAIN order : order[i] = key

\* The live nodes reached from key by following parentFocusKey upward.
RECURSIVE AncestorClosure(_, _)
AncestorClosure(fc, found) ==
    LET more == found \cup ({fc[k].parentFocusKey : k \in found} \cap DOMAIN fc)
    IN  IF more = found THEN found ELSE AncestorClosure(fc, more)

LiveAncestors(fc, key) ==
    IF key \notin DOMAIN fc
    THEN {}
    ELSE AncestorClosure(fc, {fc[key].parentFocusKey} \cap DOMAIN fc)

\* The key a focus() call resolved its target to: the end of the resolution
\* path, or the key focused before for a target that is not registered.
ResolvedLeaf(c) == IF c.path = <<>> THEN c.old ELSE c.path[Len(c.path)]

\* C2: right after a focus() call that completed with the engine enabled, the
\* tracked ancestors are exactly the live ancestors of the key the call
\* resolved to, each listed once.
C2_AncestorsAreTheLiveChain ==
    (enabled /\ call.target # NULL /\ call.outcome = "ok")
    => /\ Range(parentsHavingFocusedChild)
            = LiveAncestors(focusableComponents, ResolvedLeaf(call))
       /\ Len(parentsHavingFocusedChild)
            = Cardinality(Range(parentsHavingFocusedChild))

\* A focus() call has moved the focus under two live ancestors.
C2_Witness ==
    /\ enabled /\ call.op = "focus" /\ call.outcome = "ok"
    /\ call.old # focusKey
    /\ Len(parentsHavingFocusedChild) = 2

\* The live focusable nodes registered under target.
FocusableChildren(fc, target) ==
    {k \in DOMAIN fc : fc[k].parentFocusKey = target /\ fc[k].focusable}

\* C3: focus(x) on a live x without a focusable child resolves to x itself
\* whenever the resolution returns.
C3_ChildlessTargetIsTheLeaf ==
    [][(/\ enabled
        /\ call'.op = "focus" /\ call'.outcome = "ok"
        /\ call'.key \in DOMAIN focusableComponents
        /\ FocusableChildren(focusableComponents, call'.key) = {})
       => focusKey' = call'.key]_vars

\* C4: the leaf resolution of a focus() call always returns.
C4_LeafResolverTerminates ==
    call.target # NULL => call.outcome # "RangeError"

\* A node that can be descended into.
Usable(fc, key) == key # NULL /\ key \in DOMAIN fc /\ fc[key].focusable

\* The focusable child of target nearest the origin of the page, the earliest
\* in property order among equally near ones.
NearestChild(fc, order, boxes, target) ==
    LET far(k) == Abs(boxes[k].left) + Abs(boxes[k].top)
    IN  CHOOSE k \in FocusableChildren(fc, target) :
            \A j \in FocusableChildren(fc, target) :
                \/ far(k) < far(j)
                \/ far(k) = far(j) /\ Position(order, k) <= Position(order, j)

\* The node one resolver step descends into from target.
Descent(fc, order, boxes, target) ==
    LET c == fc[target]
    IN  IF c.saveLastFocusedChild /\ Usable(fc, c.lastFocusedChildKey)
        THEN c.lastFocusedChildKey
        ELSE IF Usable(fc, c.preferredChildFocusKey)
        THEN c.preferredChildFocusKey
        ELSE NearestChild(fc, order, boxes, target)

\* C5: every level of a returning leaf resolution that has a focusable child
\* descends into the usable last focused child, else the usable preferred
\* child, else the nearest focusable child; and only live focusable nodes are
\* descended into.
C5_ResolverStep ==
    [][(enabled /\ call'.op = "focus" /\ call'.outcome # "RangeError")
       => \A i \in DOMAIN call'.path :
             /\ i > 1 => Usable(focusableComponents, call'.path[i])
             /\ FocusableChildren(focusableComponents, call'.path[i]) # {}
                => /\ i < Len(call'.path)
                   /\ call'.path[i + 1]
                        = Descent(focusableComponents, keyOrder, dom,
                                  call'.path[i])]_vars

\* A focus() call on a target whose preferred child cannot be used has
\* descended into a child of the target.
C5_Witness ==
    /\ enabled /\ call.op = "focus" /\ call.outcome = "ok"
    /\ Len(call.path) = 2
    /\ focusableComponents[call.path[1]].preferredChildFocusKey # NULL
    /\ ~Usable(focusableComponents,
               focusableComponents[call.path[1]].preferredChildFocusKey)
    /\ focusKey = call.path[2]
    /\ focusableComponents[focusKey].parentFocusKey = call.path[1]

\* The origin of the level at which a directional move took a sibling.
Origin(c) == c.levels[Len(c.levels)]

\* cand lies wholly on the side of origin that direction points to.
Faces(direction, origin, cand) ==
    CASE direction = DIRECTION_LEFT -> cand.left + cand.width <= origin.left
      [] direction = DIRECTION_RIGHT -> origin.left + origin.width <= cand.left
      [] direction = DIRECTION_UP -> cand.top + cand.height <= origin.top
      [] direction = DIRECTION_DOWN -> origin.top + origin.height <= cand.top

\* The direction the key map gives a key code.
DirectionOf(code) == getEventType(keyMap, code)

\* The candidates of a level: the focusable siblings of origin facing it.
Eligible(fc, direction, origin) ==
    {k \in DOMAIN fc :
        /\ fc[k].focusable
        /\ k # origin
        /\ fc[k].parentFocusKey = fc[origin].parentFocusKey
        /\ Faces(direction, fc[origin].layout, fc[k].layout)}

\* C6: the sibling a directional key-down takes is focusable, is not the origin
\* of its level, has the origin's parent, and faces the origin in the
\* direction of the key on the boxes the components hold.
C6_TakenSiblingFacesOrigin ==
    [][(call'.op = "keydown" /\ call'.taken # NULL)
       => call'.taken \in Eligible(focusableComponents, DirectionOf(call'.code),
                                   Origin(call'))]_vars

\* A directional key-down has climbed from the focused node to its parent and
\* taken a sibling of the parent.
C6_Witness ==
    /\ call.op = "keydown" /\ call.taken # NULL /\ call.outcome = "ok"
    /\ focusKey = call.taken
    /\ Len(call.levels) = 2
    /\ call.old = call.levels[1]
    /\ focusableComponents[call.old].parentFocusKey = Origin(call)

\* The extent of a box across the axis of a move: where it starts and ends.
CrossStart(direction, box) == IF isVertical(direction) THEN box.left ELSE box.top

CrossEnd(direction, box) ==
    IF isVertical(direction) THEN box.left + box.width ELSE box.top + box.height

\* How much of the origin's cross-axis extent the candidate overlaps.
Overlap(direction, origin, cand) ==
    Max2(0, Min2(CrossEnd(direction, origin), CrossEnd(direction, cand))
            - Max2(CrossStart(direction, origin), CrossStart(direction, cand)))

\* The overlap is at least 20% of the origin's cross-axis extent.
Adjacent(direction, origin, cand) ==
    Overlap(direction, origin, cand) * 100
        >= 20 * (CrossEnd(direction, origin) - CrossStart(direction, origin))

\* The distance between the facing edges along the axis of the move.
MoveDistance(direction, origin, cand) ==
    CASE direction = DIRECTION_LEFT -> Abs(cand.left + cand.width - origin.left)
      [] direction = DIRECTION_RIGHT -> Abs(cand.left - (origin.left + origin.width))
      [] direction = DIRECTION_UP -> Abs(cand.top + cand.height - origin.top)
      [] direction = DIRECTION_DOWN -> Abs(cand.top - (origin.top + origin.height))

\* The least corner-to-corner distance across the axis of the move.
CrossDistance(direction, origin, cand) ==
    Min2(Min2(Abs(CrossStart(direction, cand) - CrossStart(direction, origin)),
              Abs(CrossStart(direction, cand) - CrossEnd(direction, origin))),
         Min2(Abs(CrossEnd(direction, cand) - CrossStart(direction, origin)),
              Abs(CrossEnd(direction, cand) - CrossEnd(direction, origin))))

\* Five times the score of a candidate.
ScoreTimes5(direction, origin, cand) ==
    IF Adjacent(direction, origin, cand)
    THEN MoveDistance(direction, origin, cand) * 5
            + CrossDistance(direction, origin, cand) + 1
    ELSE 5 * (CrossDistance(direction, origin, cand) * 5
                + MoveDistance(direction, origin, cand) + 1)

\* Siblings A(0,0,10,10), B(20,0,10,10), C(0,20,10,10) under one parent.
ScenarioABC(fc) ==
    /\ DOMAIN fc = Ids
    /\ \A k \in Ids : fc[k].focusable /\ fc[k].parentFocusKey = ROOT_FOCUS_KEY
    /\ fc["a"].layout = Box(0, 0, 10, 10)
    /\ fc["b"].layout = Box(20, 0, 10, 10)
    /\ fc["c"].layout = Box(0, 20, 10, 10)

\* C7: the sibling a directional key-down takes has the least score among the
\* candidates of its level and is the earliest in property order of those with
\* that score; with A, B, C laid out as in the scenario, right from A takes B
\* and left from B takes A.
C7_TakenSiblingHasLeastScore ==
    [][call'.op = "keydown"
       => /\ call'.taken # NULL
             => LET d == DirectionOf(call'.code)
                    o == Origin(call')
                    score(k) == ScoreTimes5(d, focusableComponents[o].layout,
                                            focusableComponents[k].layout)
                IN  \A j \in Eligible(focusableComponents, d, o) :
                       \/ score(call'.taken) < score(j)
                       \/ /\ score(call'.taken) = score(j)
                          /\ Position(keyOrder, call'.taken) <= Position(keyOrder, j)
          /\ (/\ ScenarioABC(focusableComponents) /\ ~paused
              /\ call'.arrow # "false")
             => /\ (focusKey = "a" /\ call'.code = 39)
                   => (call'.taken = "b" /\ focusKey' = "b")
                /\ (focusKey = "b" /\ call'.code = 37)
                   => (call'.taken = "a" /\ focusKey' = "a")]_vars

\* Right from a has taken b, adjacent and far, with c diagonal and near.
C7_Witness ==
    /\ call.op = "keydown" /\ call.code = 39 /\ call.outcome = "ok"
    /\ call.old = "a" /\ call.taken = "b" /\ focusKey = "b"
    /\ DOMAIN focusableComponents = Ids
    /\ focusableComponents["a"].layout = Box(0, 0, 10, 10)
    /\ focusableComponents["b"].layout = Box(40, 0, 10, 10)
    /\ focusableComponents["c"].layout = Box(20, 20, 10, 10)

\* key is node or lies under it.
InSubtree(fc, key, node) ==
    key \in DOMAIN fc /\ (key = node \/ node \in LiveAncestors(fc, key))

\* A last focused or preferred child that is registered is a child of the node
\* that names it.
HintsNameChildren(fc) ==
    \A k \in DOMAIN fc :
        \A h \in {fc[k].lastFocusedChildKey, fc[k].preferredChildFocusKey} :
            h \in DOMAIN fc => fc[h].parentFocusKey = k

\* C8: when every last focused and preferred child is a child of the node naming
\* it, a directional key-down leaves the focus inside every focus boundary it
\* was inside of.
C8_BoundaryKeepsFocus ==
    [][(/\ call'.op = "keydown" /\ call'.code \in {37, 38, 39, 40}
        /\ HintsNameChildren(focusableComponents))
       => \A B \in DOMAIN focusableComponents :
             (/\ focusableComponents[B].isFocusBoundary
              /\ InSubtree(focusableComponents, focusKey, B))
             => InSubtree(focusableComponents', focusKey', B)]_vars

\* A directional key-down has climbed from the focused node to a focus boundary
\* beside which a focusable node lies, and the focus has stayed.
C8_Witness ==
    /\ call.op = "keydown" /\ call.outcome = "ok" /\ call.arrow # "false"
    /\ Len(call.levels) >= 1 /\ call.taken = NULL
    /\ call.old = focusKey
    /\ HintsNameChildren(focusableComponents)
    /\ \E B \in DOMAIN focusableComponents :
          /\ focusableComponents[B].isFocusBoundary
          /\ B # focusKey
          /\ InSubtree(focusableComponents, focusKey, B)
          /\ Eligible(focusableComponents, DirectionOf(call.code), B) # {}

\* C9: with the engine enabled, focus() on a key that is not registered leaves
\* the focus key as it was and invokes no callback.
C9_UnknownTargetIsNoOp ==
    [][(/\ enabled
        /\ call'.op = "focus"
        /\ call'.key \notin DOMAIN focusableComponents)
       => (focusKey' = focusKey /\ fired' = <<>>)]_vars

\* C10: a focus() call that resolves to the current focus key leaves the
\* tracked ancestors and every last focused child as they were and invokes no
\* callback.
C10_ResolvedIsCurrentChangesNothing ==
    [][(/\ enabled
        /\ call'.op = "focus" /\ call'.outcome = "ok"
        /\ focusKey' = focusKey)
       => /\ parentsHavingFocusedChild' = parentsHavingFocusedChild
          /\ fired' = <<>>
          /\ \A k \in DOMAIN focusableComponents :
                focusableComponents'[k].lastFocusedChildKey
                    = focusableComponents[k].lastFocusedChildKey]_vars

\* key and its live ancestors: the path from key up to the root.
PathUp(fc, key) == {key} \cup LiveAncestors(fc, key)

\* C11: after a focus() call that changed the focus key, every live ancestor of
\* the new focus key has as last focused child its child on the path down to
\* the new focus key.
C11_AncestorsRecordThePath ==
    [][(/\ enabled
        /\ call'.op = "focus" /\ call'.outcome = "ok"
        /\ focusKey' # focusKey)
       => \A a \in LiveAncestors(focusableComponents', focusKey') :
             \E k \in PathUp(focusableComponents', focusKey') :
                /\ focusableComponents'[k].parentFocusKey = a
                /\ focusableComponents'[a].lastFocusedChildKey = k]_vars

\* C12: removeFocusable of a registered component gives each of its focusable
\* children the parent the removed component had.
C12_FocusableChildrenGoToTheParent ==
    [][(/\ call'.op = "removeFocusable"
        /\ call'.key \in DOMAIN focusableComponents)
       => \A k \in FocusableChildren(focusableComponents, call'.key) \ {call'.key} :
             /\ k \in DOMAIN focusableComponents'
             /\ focusableComponents'[k].parentFocusKey
                    = focusableComponents[call'.key].parentFocusKey]_vars

\* b, registered under a with the focusable c under it, has been removed and c
\* is now under a.
C12_Witness ==
    /\ universe = OrderlyApp
    /\ call.op = "removeFocusable" /\ call.key = "b"
    /\ "b" \notin DOMAIN focusableComponents
    /\ "c" \in DOMAIN focusableComponents
    /\ focusableComponents["c"].focusable
    /\ focusableComponents["c"].parentFocusKey = "a"

\* C13: after removeFocusable of a registered component no registered
\* component has it as last focused child.
C13_NoLastFocusedChildIsTheRemoved ==
    [][(/\ call'.op = "removeFocusable"
        /\ call'.key \in DOMAIN focusableComponents)
       => \A k \in DOMAIN focusableComponents' :
             focusableComponents'[k].lastFocusedChildKey # call'.key]_vars

\* C14: in an application that registers parents first, the parent of every
\* registered component is the root sentinel or a registered component.
C14_ParentsAreKnown ==
    "parentFirst" \in universe.ops
    => \A k \in DOMAIN focusableComponents :
          parentIsKnown(focusableComponents, focusableComponents[k].parentFocusKey)

\* C15: updateFocusable on a registered component leaves every field that its
\* payload does not hold as it was.
C15_UpdateKeepsOmittedFields ==
    [][(/\ call'.op = "updateFocusable"
        /\ call'.key \in DOMAIN focusableComponents)
       => \A f \in DOMAIN focusableComponents[call'.key] \ DOMAIN call'.payload :
             focusableComponents'[call'.key][f] = focusableComponents[call'.key][f]]_vars

\* The focused, registered component named by the coming removeFocusable has a
\* registered parent that restores focus, and the engine is enabled.
FocusedRemovalRestores ==
    /\ enabled
    /\ call'.op = "removeFocusable"
    /\ call'.key = focusKey
    /\ focusKey \in DOMAIN focusableComponents
    /\ focusableComponents[focusKey].parentFocusKey
           \in DOMAIN focusableComponents \ {focusKey}
    /\ focusableComponents[focusableComponents[focusKey].parentFocusKey].autoRestoreFocus

\* The focus has gone to the leaf resolved from target, a registered component
\* other than removed, which was told so; removed was told nothing.
RestoredTo(target, removed) ==
    /\ call'.target = target
    /\ call'.path # <<>> /\ call'.path[1] = target
    /\ focusKey' = call'.path[Len(call'.path)]
    /\ focusKey' \in DOMAIN focusableComponents'
    /\ focusKey' # removed
    /\ Cb("onUpdateFocus", focusKey', TRUE) \in Range(fired')
    /\ Cb("onFocus", focusKey', TRUE) \in Range(fired')
    /\ \A i \in DOMAIN fired' : fired'[i].key # removed

\* C16: removeFocusable of the focused component, whose registered parent
\* restores focus, moves the focus to the leaf resolved from that parent, a
\* registered component that is told it is focused, and invokes no callback of
\* the removed component.
C16_RemovalRestoresFocus ==
    [][FocusedRemovalRestores
       => RestoredTo(focusableComponents[focusKey].parentFocusKey, focusKey)]_vars

\* C16 for the removals whose focus() on the parent returns.
C16_ReturningRemovalRestoresFocus ==
    [][(FocusedRemovalRestores /\ call'.outcome = "ok")
       => RestoredTo(focusableComponents[focusKey].parentFocusKey, focusKey)]_vars

\* C19: a key-down of a mapped key that arrives, the engine not paused, while
\* the focus key is null or names no registered component returns without an
\* error and leaves the focus key and every component as they were.
C19_KeyDownWithoutFocusedComponent ==
    [][(/\ call'.op = "keydown"
        /\ ~paused
        /\ getEventType(keyMap, call'.code) # NULL
        /\ focusKey \notin DOMAIN focusableComponents)
       => /\ call'.outcome = "ok"
          /\ focusKey' = focusKey
          /\ focusableComponents' = focusableComponents]_vars

\* C17: in an application whose callbacks do not call the engine, at most one
\* registered component was last told onUpdateFocus(true), and it is the one
\* the focus key names.
C17_OnlyTheFocusedIsToldFocused ==
    "reenter" \notin universe.ops
    => /\ focused \subseteq DOMAIN focusableComponents
       /\ focused \subseteq {focusKey}

\* The focus has moved from one registered component, which is still
\* registered, to another.
C17_Witness ==
    /\ call.outcome = "ok"
    /\ call.old \in DOMAIN focusableComponents
    /\ call.old # focusKey
    /\ Cb("onUpdateFocus", call.old, FALSE) \in Range(fired)
    /\ focused = {focusKey}

\* C18: after a focus() call, one of whose onBlur or onFocus callbacks called
\* focus() in its turn, has returned, no component but the one the focus key
\* names was last told onUpdateFocus(true).
C18_NestedFocusLeavesOneFocused ==
    (/\ call.op \in {"focus, onBlur calls focus", "focus, onFocus calls focus"}
     /\ call.outcome = "ok")
    => focused \subseteq {focusKey}

\* C20: while the engine is paused a key-down or key-up event leaves the held
\* counters, the focus key and the components as they were and invokes no
\* callback, and a focus() call on a registered key, the engine enabled, moves
\* the focus to the key it resolves to.
C20_PausedIgnoresKeysNotFocus ==
    [][/\ (paused /\ call'.op \in {"keydown", "keyup"})
          => /\ pressedKeys' = pressedKeys
             /\ focusKey' = focusKey
             /\ focusableComponents' = focusableComponents
             /\ fired' = <<>>
       /\ (/\ paused /\ enabled
           /\ call'.op = "focus" /\ call'.outcome = "ok"
           /\ call'.key \in DOMAIN focusableComponents)
          => focusKey' = ResolvedLeaf(call')]_vars

\* C21: while the engine is disabled, focus() on any key leaves the focus key,
\* the tracked ancestors and every component as they were and invokes no
\* callback.
C21_DisabledFocusIsNoOp ==
    [][(~enabled /\ call'.op = "focus")
       => /\ focusKey' = focusKey
          /\ parentsHavingFocusedChild' = parentsHavingFocusedChild
          /\ focusableComponents' = focusableComponents
          /\ fired' = <<>>]_vars

\* focus() has been called on a registered, focusable key while the engine was
\* disabled.
C21_Witness ==
    /\ ~enabled
    /\ call.op = "focus"
    /\ Usable(focusableComponents, call.key)
    /\ focusKey # call.key

\* No onFocus, onBlur or onUpdateFocus is among the callbacks cbs.
NoFocusCallback(cbs) ==
    \A i \in DOMAIN cbs : cbs[i].cb \notin {"onFocus", "onBlur", "onUpdateFocus"}

\* C22: for a directional key-down that the throttle lets through while a
\* registered component is focused, an
\* onArrowPress that returns false leaves the resolver unrun, the focus key and
\* every last focused child as they were, and no focus or blur callback is
\* invoked; after true or undefined the navigation runs: it takes a sibling
\* facing an origin that is no focus boundary, and a navigation that returns
\* measures every layout.
C22_OnlyFalseSuppressesNavigation ==
    [][(/\ call'.op = "keydown" /\ ~paused /\ ~call'.dropped
        /\ call'.code \in {37, 38, 39, 40}
        /\ focusKey \in DOMAIN focusableComponents)
       => /\ call'.arrow = "false"
             => /\ call'.levels = <<>> /\ call'.taken = NULL
                /\ focusKey' = focusKey
                /\ \A k \in DOMAIN focusableComponents :
                      /\ k \in DOMAIN focusableComponents'
                      /\ focusableComponents'[k].lastFocusedChildKey
                            = focusableComponents[k].lastFocusedChildKey
                /\ NoFocusCallback(fired')
          /\ call'.arrow # "false"
             => /\ (/\ ~focusableComponents[focusKey].isFocusBoundary
                    /\ Eligible(focusableComponents, DirectionOf(call'.code),
                                focusKey) # {})
                   => /\ call'.levels = <<focusKey>>
                      /\ call'.taken \in Eligible(focusableComponents,
                                                  DirectionOf(call'.code), focusKey)
                /\ call'.outcome = "ok"
                   => \A k \in DOMAIN focusableComponents' :
                         focusableComponents'[k].layout = dom[k]]_vars

\* onArrowPress of the focused component has returned false to a directional
\* key-down for which a sibling faces the focused component.
C22_Witness ==
    /\ call.op = "keydown" /\ call.arrow = "false" /\ ~paused /\ ~call.dropped
    /\ call.code \in {37, 38, 39, 40}
    /\ focusKey \in DOMAIN focusableComponents
    /\ ~focusableComponents[focusKey].isFocusBoundary
    /\ Eligible(focusableComponents, DirectionOf(call.code), focusKey) # {}
    /\ fired = <<Cb("onArrowPress", focusKey, FALSE)>>

\* C23: with this.throttle above 0, whatever throttleKeypresses is, the key-down
\* that follows a key-up is not dropped by the throttle.
C23_KeyUpEndsTheThrottle ==
    [][(call.op = "keyup" /\ throttle > 0 /\ call'.op = "keydown")
       => ~call'.dropped]_vars

\* C24: setKeyMap(m) leaves every action of m that holds a number with the array
\* of that number and every action of m that holds an array with that array;
\* every other action, those of m with a value of another type among them,
\* keeps the key codes it had.
C24_SetKeyMapMerges ==
    [][call'.op = "setKeyMap"
       => LET m == call'.payload
          IN  /\ DOMAIN keyMap' = DOMAIN keyMap
              /\ \A e \in DOMAIN keyMap :
                    keyMap'[e] =
                        IF e \in DOMAIN m /\ m[e].type = "number"
                        THEN <<m[e].number>>
                        ELSE IF e \in DOMAIN m /\ m[e].type = "array"
                        THEN m[e].array
                        ELSE keyMap[e]]_vars

\* setKeyMap has been called with a number for one action and a value of another
\* type for a second, after an earlier call gave the second action, and a
\* third, other key codes than the default ones.
C24_Witness ==
    /\ call.op = "setKeyMap"
    /\ \E e \in DOMAIN call.payload :
          call.payload[e].type = "number" /\ keyMap[e] = <<call.payload[e].number>>
    /\ \E e \in DOMAIN call.payload :
          call.payload[e].type = "string" /\ keyMap[e] # DEFAULT_KEY_MAP[e]
    /\ \E e \in DOMAIN keyMap \ DOMAIN call.payload : keyMap[e] # DEFAULT_KEY_MAP[e]

\* C25: the layout a directional key-down reads for the origin of each level and
\* for each of its focusable siblings is the box the node has during the event.
C25_ResolverReadsFreshBoxes ==
    [][call'.op = "keydown"
       => \A i \in DOMAIN call'.levels :
             \A k \in DOMAIN focusableComponents :
                (\/ k = call'.levels[i]
                 \/ /\ focusableComponents[k].focusable
                    /\ focusableComponents[k].parentFocusKey
                          = focusableComponents[call'.levels[i]].parentFocusKey)
                => focusableComponents[k].layout = dom[k]]_vars

\* C26: a directional key-down that navigates from a registered focused component
\* with a focusable sibling facing it takes a sibling of the least score among
\* those, and the focus key becomes the leaf resolved from it, whatever flags
\* the focused component has, isFocusBoundary among them.
C26_OriginFlagsDoNotMatter ==
    [][(/\ call'.op = "keydown" /\ ~paused /\ ~call'.dropped
        /\ call'.arrow # "false" /\ call'.outcome = "ok"
        /\ DirectionOf(call'.code) \in Directions
        /\ focusKey \in DOMAIN focusableComponents
        /\ Eligible(focusableComponents, DirectionOf(call'.code), focusKey) # {})
       => LET d == DirectionOf(call'.code)
              score(k) == ScoreTimes5(d, focusableComponents[focusKey].layout,
                                      focusableComponents[k].layout)
          IN  /\ call'.taken \in Eligible(focusableComponents, d, focusKey)
              /\ \A j \in Eligible(focusableComponents, d, focusKey) :
                    score(call'.taken) <= score(j)
              /\ focusKey' = ResolvedLeaf(call')]_vars

\* C27: a directional key-down that navigates from a registered focused component
\* without a focusable sibling facing it, under a parent that is a focus
\* boundary or is not registered, leaves the focus key as it was, invokes no
\* callback but onArrowPress, and leaves every field of every component but
\* the measured layout as it was.
C27_StoppedMoveChangesNothing ==
    [][(/\ call'.op = "keydown" /\ ~paused /\ ~call'.dropped
        /\ call'.arrow # "false"
        /\ DirectionOf(call'.code) \in Directions
        /\ focusKey \in DOMAIN focusableComponents
        /\ Eligible(focusableComponents, DirectionOf(call'.code), focusKey) = {}
        /\ LET parent == focusableComponents[focusKey].parentFocusKey
           IN  \/ parent \notin DOMAIN focusableComponents
               \/ focusableComponents[parent].isFocusBoundary)
       => /\ focusKey' = focusKey
          /\ \A i \in DOMAIN fired' : fired'[i].cb = "onArrowPress"
          /\ DOMAIN focusableComponents' = DOMAIN focusableComponents
          /\ \A k \in DOMAIN focusableComponents :
                focusableComponents'[k]
                    = [focusableComponents[k] EXCEPT
                          !.layout = focusableComponents'[k].layout]]_vars

\* How often the callback c is among cbs.
Count(cbs, c) == Cardinality({i \in DOMAIN cbs : cbs[i] = c})

\* The callbacks of a move of the focus from a to b, in the order of the code.
MoveCallbacks(a, b) ==
    <<Cb("onUpdateFocus", a, FALSE), Cb("onBlur", a, FALSE),
      Cb("onUpdateFocus", b, TRUE), Cb("onFocus", b, TRUE)>>

C29_TrackingParentsKnowTheFocus ==
    (enabled /\ call.op = "focus" /\ call.outcome = "ok")
    => \A p \in DOMAIN focusableComponents :
          focusableComponents[p].trackChildren
          => (p \in hasFocusedChild
              <=> p \in LiveAncestors(focusableComponents, focusKey))

\* The last operation moved the focus from the registered, focusable leaf a
\* under p out of the subtree of p, by focus() or by a key-down.
MovedOut(a, p) ==
    /\ call.op \in {"focus", "keydown"} /\ call.outcome = "ok"
    /\ call.old = a /\ focusKey # a /\ p # a
    /\ Usable(focusableComponents, a)
    /\ FocusableChildren(focusableComponents, a) = {}
    /\ InSubtree(focusableComponents, a, p)
    /\ ~InSubtree(focusableComponents, focusKey, p)

PathSaves(fc, p, a) ==
    \A q \in LiveAncestors(fc, a) : InSubtree(fc, q, p) => fc[q].saveLastFocusedChild

C31_ResolvedLeafIsUnderTheTarget ==
    [][(/\ enabled
        /\ call'.op = "focus" /\ call'.outcome = "ok"
        /\ call'.key \in DOMAIN focusableComponents)
       => InSubtree(focusableComponents, ResolvedLeaf(call'), call'.key)]_vars

\* C32: a key-down of the enter key that reaches keyDownEventListener while a
\* focus key is set invokes onEnterPress of the focused component if that is
\* registered and focusable and nothing otherwise; it runs no directional
\* navigation and leaves the focus key and every component as they were.
C32_EnterPressOnlyOnFocusable ==
    [][(/\ call'.op = "keydown" /\ ~paused /\ ~call'.dropped
        /\ DirectionOf(call'.code) = KEY_ENTER
        /\ focusKey # NULL)
       => /\ fired' = IF Usable(focusableComponents, focusKey)
                      THEN <<Cb("onEnterPress", focusKey, TRUE)>>
                      ELSE <<>>
          /\ call'.levels = <<>> /\ call'.taken = NULL /\ call'.target = NULL
          /\ call'.outcome = "ok"
          /\ focusKey' = focusKey
          /\ focusableComponents' = focusableComponents]_vars

\* The enter key has gone down on a focused component that is registered and
\* not focusable: no callback has been invoked.
C32_Witness ==
    /\ call.op = "keydown" /\ ~paused /\ ~call.dropped
    /\ DirectionOf(call.code) = KEY_ENTER
    /\ focusKey \in DOMAIN focusableComponents
    /\ ~focusableComponents[focusKey].focusable
    /\ fired = <<>>

\* C33: a key-up of the enter key while the focus key names a registered
\* component invokes onEnterRelease of that component, focusable or not.
C33_EnterReleaseOnEveryFocused ==
    [][(/\ call'.op = "keyup"
        /\ DirectionOf(call'.code) = KEY_ENTER
        /\ focusKey \in DOMAIN focusableComponents)
       => fired' = <<Cb("onEnterRelease", focusKey, TRUE)>>]_vars

\* C34: after every step, each action of the key map has in this.pressedKeys
\* the number of its key-downs dispatched since its last key-up (dispatched:
\* handed to keyDownEventListener while the engine is not paused, which a
\* key-down that the throttle drops is not), and no entry when that number is
\* 0; and a key-down of a key code the key map
\* does not hold leaves this.pressedKeys as it was.
C34_HeldCountsDispatchedKeyDowns ==
    [][/\ \A e \in Range(KeyMapOrder) :
             IF dispatched'[e] = 0
             THEN e \notin DOMAIN pressedKeys'
             ELSE e \in DOMAIN pressedKeys' /\ pressedKeys'[e] = dispatched'[e]
       /\ DOMAIN pressedKeys' \subseteq Range(KeyMapOrder)
       /\ (call'.op = "keydown" /\ DirectionOf(call'.code) = NULL)
          => pressedKeys' = pressedKeys]_vars

\* A second key-down of an action has been dispatched before a key-up of it.
C34_Witness ==
    /\ call.op = "keydown" /\ ~call.dropped
    /\ DirectionOf(call.code) # NULL
    /\ dispatched[DirectionOf(call.code)] = 2
    /\ pressedKeys[DirectionOf(call.code)] = 2

\* C35: a focus() call that returns, with the engine enabled, and resolves to a
\* registered component that has no child and is not focusable makes it the
\* current focus and invokes neither its onUpdateFocus(true) nor its onFocus.
C35_UnfocusableLeafIsToldNothing ==
    [][(/\ enabled
        /\ call'.op = "focus" /\ call'.outcome = "ok"
        /\ ResolvedLeaf(call') \in DOMAIN focusableComponents
        /\ ~focusableComponents[ResolvedLeaf(call')].focusable
        /\ \A k \in DOMAIN focusableComponents :
              focusableComponents[k].parentFocusKey # ResolvedLeaf(call'))
       => /\ focusKey' = ResolvedLeaf(call')
          /\ \A i \in DOMAIN fired' :
                fired'[i].key = ResolvedLeaf(call')
                => fired'[i].cb \notin {"onUpdateFocus", "onFocus"}]_vars

\* C36: an addFocusable that returns, with the engine enabled, and registers
\* the focus key, whose component had been removed, invokes onUpdateFocus(true)
\* and onFocus of the component it registers.
C36_ReaddedFocusedIsToldFocused ==
    [][(/\ enabled
        /\ call'.op = "addFocusable" /\ call'.outcome = "ok"
        /\ call'.key = focusKey
        /\ focusKey \notin DOMAIN focusableComponents)
       => /\ \E i \in DOMAIN fired' : fired'[i] = Cb("onUpdateFocus", focusKey, TRUE)
          /\ \E i \in DOMAIN fired' : fired'[i] = Cb("onFocus", focusKey, TRUE)]_vars

\* C37: destroy() leaves no key-down listener on window, whatever this.throttle
\* was, and a key event that arrives while the engine is destroyed changes no
\* component, focus key or held key, invokes no callback and raises no error.
C37_DestroyUnbindsTheListeners ==
    [][/\ call'.op = "destroy" => staleListeners' = <<>>
       /\ (~enabled /\ call'.op \in {"keydown", "keyup"})
          => /\ focusableComponents' = focusableComponents
             /\ focusKey' = focusKey
             /\ pressedKeys' = pressedKeys
             /\ fired' = <<>>
             /\ call'.outcome = "ok"]_vars

\* C38: in every state getCurrentFocusKey() returns null or the focus key of a
\* registered component.
C38_FocusKeyIsRegistered ==
    focusKey = NULL \/ focusKey \in DOMAIN focusableComponents

\* C39: in an application whose addFocusable calls all name as parent the root
\* or a component registered at the time, and never the component itself, no
\* component is among its own ancestors, and no ancestor walk of focus() goes
\* on for ever.
C39_KnownParentsMakeAForest ==
    (/\ "parentFirst" \in universe.ops
     /\ \A k \in AppIds : \A payload \in universe.adds[k] : payload.parentFocusKey # k)
    => /\ \A k \in DOMAIN focusableComponents :
             k \notin LiveAncestors(focusableComponents, k)
       /\ call.outcome # "hang"

====
